---- MODULE Spec2Model ----
(***************************************************************************)
(* howrs: the scan/decision loops of the CLI (src/src/main.rs), the PAM     *)
(* module (src/src/pam.rs), the matcher (src/src/matcher.rs,                *)
(* howrs-vision/src/face.rs) and the face store (src/src/storage.rs).       *)
(*                                                                          *)
(* Numbers.  f32 similarities and embedding components are fixed-point      *)
(* integers in units of 1/25 (components in units of 1/5), so that          *)
(* <<3,4>>, <<5,0>> ... are exactly L2-normalised and 1.0 is One = 25.      *)
(* Detector scores are integers in units of 1/100.                          *)
(***************************************************************************)
EXTENDS Integers, Sequences, FiniteSets

VARIABLES
    store,           \* storage.rs: user |-> the records of <prefix>/<user>/faces.bin
    wf,              \* the workflow being run: "idle", "enroll", "test", "pam"
    user,            \* user_id / username of the run
    pc,              \* position in the workflow: "idle", "scan", "finish", "decide", "done"
    i,               \* the loop counter of the scan loop
    best_detection,  \* enroll: Option<Detection>
    best_embedding,  \* enroll, run_auth: Option<Embedding>
    records,         \* test, run_auth: the records loaded at the start
    threshold,       \* cfg.threshold
    result,          \* what the workflow returned
    hist,            \* history: the successful frames of an enroll run, in order
    storeBefore,     \* history: the store when the run started
    acquired,        \* history: number of camera.frame() calls of the run
    last,            \* history: outcome of the last frame: "none", "capture", "pipeline", "ok"
    matchedAny,      \* history: some embedded frame matched a record at >= threshold
    belowSeen,       \* history: some embedded frame matched no record at >= threshold
    args,            \* arguments of a direct call of the matcher
    ret              \* its return value

vars == <<store, wf, user, pc, i, best_detection, best_embedding, records,
          threshold, result, hist, storeBefore, acquired, last, matchedAny,
          belowSeen, args, ret>>

scanVars == <<store, wf, user, pc, i, best_detection, best_embedding, records,
              threshold, result, hist, storeBefore, acquired, last, matchedAny,
              belowSeen>>

----------------------------------------------------------------------------
(* Bounds of the model *)

\* records kept in the whole store
MaxRecords == 2
\* successful frames of one enroll run
MaxOk == 2
\* records passed to a direct best_score call
MaxArgRecords == 2

(* Program constants *)

\* 1.0 in units of 1/25: the clamp bounds of match_embedding
One == 25
\* max_attempts of enroll and test
MAX_ATTEMPTS == 30
\* the loop bound of run_auth
PAM_ATTEMPTS == 10
\* the high-quality cutoff 0.8 of enroll, in units of 1/100
HIGH_QUALITY == 80

Users == {"alice", "bob"}

\* cfg.threshold: the default 0.6 and a stricter 0.8, in units of 1/25
Thresholds == {15, 20}

\* detector scores a frame can pass process_image(img, 0.6, 0.3) with
DetScores == {60, 80, 81, 95}

\* embeddings the recognizer yields during enrollment / authentication
EnrollEmbs == {<<5, 0>>, <<3, 4>>}
ProbeEmbs == {<<5, 0>>, <<3, 4>>, <<0, 5>>}

\* embeddings of direct matcher calls: any float sequence of length 1 or 2
Comp == {-5, -3, 0, 3, 4, 5}
Vecs == {<<x>> : x \in Comp} \cup {<<x, y>> : x \in Comp, y \in Comp}
ArgRecVecs == {<<5, 0>>, <<-3, 4>>, <<5, 5>>, <<3>>}

----------------------------------------------------------------------------
(* Option<T> *)

None == [some |-> FALSE]
Some(v) == [some |-> TRUE, val |-> v]

Min2(a, b) == IF a < b THEN a ELSE b
Max2(a, b) == IF a > b THEN a ELSE b

(* howrs-vision/src/face.rs: match_embedding *)

RECURSIVE DotUpTo(_, _, _)
DotUpTo(a, b, n) == IF n = 0 THEN 0 ELSE DotUpTo(a, b, n - 1) + a[n] * b[n]

\* a.iter().zip(b.iter()).take(len).map(|(x, y)| x * y).sum()
Dot(a, b) == DotUpTo(a, b, Min2(Len(a), Len(b)))

MatchEmbeddingNoClamp(a, b) == Dot(a, b)
\* dot.max(-1.0).min(1.0)
MatchEmbedding(a, b) == Min2(Max2(Dot(a, b), -One), One)

(* src/src/matcher.rs: best_score *)

FoldStepMin(acc, s) == IF acc.some /\ acc.val < s THEN acc ELSE Some(s)
\* Some(best) if best > s => Some(best), _ => Some(s)
FoldStep(acc, s) == IF acc.some /\ acc.val > s THEN acc ELSE Some(s)

RECURSIVE FoldScores(_, _, _, _)
FoldScores(recs, probe, k, acc) ==
    IF k > Len(recs) THEN acc
    ELSE FoldScores(recs, probe, k + 1,
                    FoldStep(acc, MatchEmbedding(recs[k].embedding, probe)))

BestScore(recs, probe) == FoldScores(recs, probe, 1, None)

(* src/src/storage.rs *)

FaceRecord(v) == [embedding |-> v]
LoadRecords(st, u) == st[u]
SaveRecord(st, u, rec) == [st EXCEPT ![u] = Append(LoadRecords(st, u), rec)]
PurgeUser(st, u) == [st EXCEPT ![u] = <<>>]

RECURSIVE SumLen(_, _)
SumLen(st, us) ==
    IF us = {} THEN 0
    ELSE LET u == CHOOSE x \in us : TRUE IN Len(st[u]) + SumLen(st, us \ {u})
TotalRecords(st) == SumLen(st, Users)

----------------------------------------------------------------------------
(* The scan loops: shared pieces *)

Budget(w) == IF w = "pam" THEN PAM_ATTEMPTS ELSE MAX_ATTEMPTS

\* camera.frame().context(..)? in enroll and test; if let Ok(..) in run_auth
CaptureErrFatal(w) == w \in {"enroll", "test"}

PipelineErrFatalInTest(w) == w = "test"
\* Err(e) => warn!(..) in enroll and test; if let Ok(..) in run_auth
PipelineErrFatal(w) == FALSE

AcceptsBelow(score, thr) == score <= thr
\* score >= cfg.threshold
Accepts(score, thr) == score >= thr

KeepBestOnTie(bd, score) == ~bd.some \/ score >= bd.val.score
\* best_detection.is_none() || score > best_detection.as_ref().unwrap().score
KeepBest(bd, score) == ~bd.some \/ score > bd.val.score

\* score > 0.8
HighQualityFrame(score) == score > HIGH_QUALITY

StoreAfterEnrollAlways(st, u, bd, be) ==
    SaveRecord(st, u, FaceRecord(IF be.some THEN be.val.vector ELSE <<>>))
\* match (best_detection, best_embedding) { (Some, Some) => save_record .. }
StoreAfterEnroll(st, u, bd, be) ==
    IF bd.some /\ be.some THEN SaveRecord(st, u, FaceRecord(be.val.vector)) ELSE st

EnrollResult(bd, be) == IF bd.some /\ be.some THEN "Ok" ELSE "Err:no_face"

\* history: does the probe reach the threshold against some record
Matches(recs, probe, thr) ==
    \E k \in 1..Len(recs) : MatchEmbedding(recs[k].embedding, probe) >= thr

NoArgs == [a |-> <<>>, b |-> <<>>, records |-> <<>>]
NoRet == [op |-> "none"]

Init ==
    /\ store = [u \in Users |-> <<>>]
    /\ wf = "idle"
    /\ user = "alice"
    /\ pc = "idle"
    /\ i = 0
    /\ best_detection = None
    /\ best_embedding = None
    /\ records = <<>>
    /\ threshold = 15
    /\ result = "none"
    /\ hist = <<>>
    /\ storeBefore = [u \in Users |-> <<>>]
    /\ acquired = 0
    /\ last = "none"
    /\ matchedAny = FALSE
    /\ belowSeen = FALSE
    /\ args = NoArgs
    /\ ret = NoRet

\* the state a workflow starts from: nothing but the store survives a process
Begin(w, u) ==
    /\ pc = "idle"
    /\ wf' = w
    /\ user' = u
    /\ i' = 0
    /\ best_detection' = None
    /\ best_embedding' = None
    /\ hist' = <<>>
    /\ storeBefore' = store
    /\ acquired' = 0
    /\ last' = "none"
    /\ matchedAny' = FALSE
    /\ belowSeen' = FALSE
    /\ UNCHANGED <<store, args, ret>>

(* src/src/main.rs: enroll *)

\* Camera::open and Pipeline::new, each with `?`
StartEnroll(u) ==
    /\ TotalRecords(store) < MaxRecords
    /\ Begin("enroll", u)
    /\ UNCHANGED <<records, threshold>>
    /\ \E opened \in BOOLEAN :
         IF opened THEN pc' = "scan" /\ result' = "none"
         ELSE pc' = "done" /\ result' = "Err:open"

\* one iteration of `for i in 0..max_attempts`
EnrollFrame ==
    /\ wf = "enroll" /\ pc = "scan" /\ i < MAX_ATTEMPTS
    /\ acquired' = acquired + 1
    /\ UNCHANGED <<store, wf, user, records, threshold, storeBefore,
                   matchedAny, belowSeen, args, ret>>
    /\ \/ \* camera.frame() fails
          /\ last' = "capture"
          /\ IF CaptureErrFatal(wf)
             THEN pc' = "done" /\ result' = "Err:capture" /\ i' = i
             ELSE /\ i' = i + 1 /\ result' = result
                  /\ pc' = IF i + 1 < MAX_ATTEMPTS THEN "scan" ELSE "finish"
          /\ UNCHANGED <<best_detection, best_embedding, hist>>
       \/ \* pipeline.process_image fails
          /\ last' = "pipeline"
          /\ IF PipelineErrFatal(wf)
             THEN pc' = "done" /\ result' = "Err:pipeline" /\ i' = i
             ELSE /\ i' = i + 1 /\ result' = result
                  /\ pc' = IF i + 1 < MAX_ATTEMPTS THEN "scan" ELSE "finish"
          /\ UNCHANGED <<best_detection, best_embedding, hist>>
       \/ \* Ok((detection, embedding))
          /\ Len(hist) < MaxOk
          /\ \E score \in DetScores, v \in EnrollEmbs :
               LET frame == Len(hist) + 1 IN
               /\ last' = "ok"
               /\ hist' = Append(hist, [score |-> score, vector |-> v])
               /\ IF KeepBest(best_detection, score)
                  THEN /\ best_detection' = Some([frame |-> frame, score |-> score])
                       /\ best_embedding' = Some([frame |-> frame, vector |-> v])
                  ELSE UNCHANGED <<best_detection, best_embedding>>
               /\ result' = result
               /\ IF HighQualityFrame(score)
                  THEN pc' = "finish" /\ i' = i
                  ELSE /\ i' = i + 1
                       /\ pc' = IF i + 1 < MAX_ATTEMPTS THEN "scan" ELSE "finish"

\* the match after the loop: save the record or bail
EnrollFinish ==
    /\ wf = "enroll" /\ pc = "finish"
    /\ store' = StoreAfterEnroll(store, user, best_detection, best_embedding)
    /\ result' = EnrollResult(best_detection, best_embedding)
    /\ pc' = "done"
    /\ UNCHANGED <<wf, user, i, best_detection, best_embedding, records,
                   threshold, hist, storeBefore, acquired, last, matchedAny,
                   belowSeen, args, ret>>

(* src/src/main.rs: test *)

\* load_records, the empty check, Camera::open and Pipeline::new
StartTest(u) ==
    /\ Begin("test", u)
    /\ records' = LoadRecords(store, u)
    /\ \E t \in Thresholds : threshold' = t
    /\ IF Len(LoadRecords(store, u)) = 0
       THEN pc' = "done" /\ result' = "Err:no_records"
       ELSE \E opened \in BOOLEAN :
              IF opened THEN pc' = "scan" /\ result' = "none"
              ELSE pc' = "done" /\ result' = "Err:open"

\* one iteration of `for i in 0..max_attempts`, and the bail after the last
TestFrame ==
    /\ wf = "test" /\ pc = "scan" /\ i < MAX_ATTEMPTS
    /\ acquired' = acquired + 1
    /\ UNCHANGED <<store, wf, user, records, threshold, storeBefore,
                   best_detection, best_embedding, hist, args, ret>>
    /\ \/ \* camera.frame() fails
          /\ last' = "capture"
          /\ UNCHANGED <<matchedAny, belowSeen>>
          /\ IF CaptureErrFatal(wf)
             THEN pc' = "done" /\ result' = "Err:capture" /\ i' = i
             ELSE /\ i' = i + 1
                  /\ IF i + 1 < MAX_ATTEMPTS
                     THEN pc' = "scan" /\ result' = result
                     ELSE pc' = "done" /\ result' = "Err:auth_failed"
       \/ \* pipeline.extract_embedding fails
          /\ last' = "pipeline"
          /\ UNCHANGED <<matchedAny, belowSeen>>
          /\ IF PipelineErrFatal(wf)
             THEN pc' = "done" /\ result' = "Err:pipeline" /\ i' = i
             ELSE /\ i' = i + 1
                  /\ IF i + 1 < MAX_ATTEMPTS
                     THEN pc' = "scan" /\ result' = result
                     ELSE pc' = "done" /\ result' = "Err:auth_failed"
       \/ \* Ok(probe_embedding)
          \E probe \in ProbeEmbs :
            LET best == BestScore(records, probe) IN
            /\ last' = "ok"
            /\ matchedAny' = (matchedAny \/ Matches(records, probe, threshold))
            /\ belowSeen' = (belowSeen \/ ~Matches(records, probe, threshold))
            /\ IF best.some /\ Accepts(best.val, threshold)
               THEN pc' = "done" /\ result' = "Ok" /\ i' = i
               ELSE /\ i' = i + 1
                    /\ IF i + 1 < MAX_ATTEMPTS
                       THEN pc' = "scan" /\ result' = result
                       ELSE pc' = "done" /\ result' = "Err:auth_failed"

(* src/src/pam.rs: run_auth *)

\* load_config, load_records, the empty check, Pipeline::new, Camera::open
StartPam(u) ==
    /\ Begin("pam", u)
    /\ records' = LoadRecords(store, u)
    /\ \E t \in Thresholds : threshold' = t
    /\ IF Len(LoadRecords(store, u)) = 0
       THEN pc' = "done" /\ result' = "Ok(false)"
       ELSE \E opened \in BOOLEAN :
              IF opened THEN pc' = "scan" /\ result' = "none"
              ELSE pc' = "done" /\ result' = "Err:open"

\* one iteration of `for _ in 0..10`
PamFrame ==
    /\ wf = "pam" /\ pc = "scan" /\ i < PAM_ATTEMPTS
    /\ acquired' = acquired + 1
    /\ result' = result
    /\ UNCHANGED <<store, wf, user, records, threshold, storeBefore,
                   best_detection, hist, args, ret>>
    /\ \/ \* camera.frame() fails
          /\ last' = "capture"
          /\ UNCHANGED <<matchedAny, belowSeen, best_embedding>>
          /\ IF CaptureErrFatal(wf)
             THEN pc' = "decide" /\ i' = i
             ELSE /\ i' = i + 1
                  /\ pc' = IF i + 1 < PAM_ATTEMPTS THEN "scan" ELSE "decide"
       \/ \* pipeline.extract_embedding fails
          /\ last' = "pipeline"
          /\ UNCHANGED <<matchedAny, belowSeen, best_embedding>>
          /\ IF PipelineErrFatal(wf)
             THEN pc' = "decide" /\ i' = i
             ELSE /\ i' = i + 1
                  /\ pc' = IF i + 1 < PAM_ATTEMPTS THEN "scan" ELSE "decide"
       \/ \* Ok(embedding): best_embedding = Some(embedding); break
          \E probe \in ProbeEmbs :
            /\ last' = "ok"
            /\ matchedAny' = (matchedAny \/ Matches(records, probe, threshold))
            /\ belowSeen' = (belowSeen \/ ~Matches(records, probe, threshold))
            /\ best_embedding' = Some([frame |-> acquired + 1, vector |-> probe])
            /\ pc' = "decide" /\ i' = i

\* after the loop: ok_or_else on the embedding and on best_score, then the compare
PamDecide ==
    /\ wf = "pam" /\ pc = "decide"
    /\ pc' = "done"
    /\ result' =
         IF ~best_embedding.some THEN "Err:no_face"
         ELSE LET score == BestScore(records, best_embedding.val.vector) IN
              IF ~score.some THEN "Err:no_match"
              ELSE IF Accepts(score.val, threshold) THEN "Ok(true)" ELSE "Ok(false)"
    /\ UNCHANGED <<store, wf, user, i, best_detection, best_embedding, records,
                   threshold, hist, storeBefore, acquired, last, matchedAny,
                   belowSeen, args, ret>>

(* src/src/main.rs: purge *)

Purge(u) ==
    /\ pc = "idle"
    /\ store' = PurgeUser(store, u)
    /\ UNCHANGED <<wf, user, pc, i, best_detection, best_embedding, records,
                   threshold, result, hist, storeBefore, acquired, last,
                   matchedAny, belowSeen, args, ret>>

\* the process exits; the next command starts afresh
Exit ==
    /\ pc = "done"
    /\ pc' = "idle"
    /\ wf' = "idle"
    /\ user' = "alice"
    /\ i' = 0
    /\ best_detection' = None
    /\ best_embedding' = None
    /\ records' = <<>>
    /\ threshold' = 15
    /\ result' = "none"
    /\ hist' = <<>>
    /\ storeBefore' = store
    /\ acquired' = 0
    /\ last' = "none"
    /\ matchedAny' = FALSE
    /\ belowSeen' = FALSE
    /\ UNCHANGED <<store, args, ret>>

Next ==
    \/ \E u \in Users : StartEnroll(u)
    \/ EnrollFrame
    \/ EnrollFinish
    \/ \E u \in Users : StartTest(u)
    \/ TestFrame
    \/ \E u \in Users : StartPam(u)
    \/ PamFrame
    \/ PamDecide
    \/ \E u \in Users : Purge(u)
    \/ Exit

Spec == Init /\ [][Next]_vars

----------------------------------------------------------------------------
(* Direct calls of the matcher on arbitrary arguments *)

RECURSIVE SeqsUpTo(_, _)
SeqsUpTo(S, n) ==
    IF n = 0 THEN {<<>>}
    ELSE LET shorter == SeqsUpTo(S, n - 1) IN
         shorter \cup {Append(q, x) : q \in shorter, x \in S}

CallMatchEmbedding ==
    /\ ret.op = "none"
    /\ \E a \in Vecs, b \in Vecs :
         /\ args' = [a |-> a, b |-> b, records |-> <<>>]
         /\ ret' = [op |-> "match_embedding", val |-> MatchEmbedding(a, b)]
    /\ UNCHANGED scanVars

CallBestScore ==
    /\ ret.op = "none"
    /\ \E rs \in SeqsUpTo(ArgRecVecs, MaxArgRecords), b \in Vecs :
         LET recs == [k \in 1..Len(rs) |-> FaceRecord(rs[k])] IN
         /\ args' = [a |-> <<>>, b |-> b, records |-> recs]
         /\ ret' = [op |-> "best_score", val |-> BestScore(recs, b)]
    /\ UNCHANGED scanVars

Return ==
    /\ ret.op # "none"
    /\ args' = NoArgs
    /\ ret' = NoRet
    /\ UNCHANGED scanVars

NextMatch == CallMatchEmbedding \/ CallBestScore \/ Return

SpecMatch == Init /\ [][NextMatch]_vars

----------------------------------------------------------------------------
(* Properties *)

AuthSuccess ==
    \/ wf = "test" /\ result = "Ok"
    \/ wf = "pam" /\ result = "Ok(true)"

RunSuccess == AuthSuccess \/ (wf = "enroll" /\ result = "Ok")

AnyFrameOk == hist # <<>> \/ matchedAny \/ belowSeen

\* C1: an authentication run (CLI test or PAM run_auth) ends in Success only
\* if some frame embedded in that run scored >= the threshold against at least
\* one enrolled record; never with an empty record set or with every frame
\* below the threshold.
C1_SuccessOnlyOnMatch == AuthSuccess => (matchedAny /\ Len(records) > 0)

C1_Witness ==
    /\ wf = "test" /\ pc = "done" /\ result = "Ok"
    /\ belowSeen /\ matchedAny /\ acquired > 1

\* C2: authentication does not stop at an embedded frame that scored below the
\* threshold: a run that embedded such a frame and did not succeed (and did not
\* abort on a capture error) has used its whole attempt budget.
C2_ContinuesPastBelowThreshold ==
    (/\ wf \in {"test", "pam"} /\ pc = "done"
     /\ belowSeen /\ ~AuthSuccess /\ result # "Err:capture")
    => acquired = Budget(wf)

Injective(f, n) == \A x, y \in 1..n : f[x] = f[y] => x = y
Reorderings(recs) ==
    {[k \in 1..Len(recs) |-> recs[f[k]]] :
        f \in {g \in [1..Len(recs) -> 1..Len(recs)] : Injective(g, Len(recs))}}

\* C3: best_score(records, probe) is None for an empty record list and
\* otherwise Some(m), m the maximum of match_embedding(record, probe) over the
\* records, whatever the order of the records.
C3_BestScoreIsMax ==
    ret.op = "best_score" =>
        LET recs == args.records
            scores == {MatchEmbedding(recs[k].embedding, args.b) : k \in 1..Len(recs)}
        IN /\ Len(recs) = 0 => ret.val = None
           /\ Len(recs) > 0 =>
                /\ ret.val.some
                /\ ret.val.val \in scores
                /\ \A s \in scores : s <= ret.val.val
           /\ \A other \in Reorderings(recs) : BestScore(other, args.b) = ret.val

C3_Witness ==
    /\ ret.op = "best_score"
    /\ Len(args.records) = 2
    /\ MatchEmbedding(args.records[1].embedding, args.b)
         > MatchEmbedding(args.records[2].embedding, args.b)
    /\ ret.val = Some(MatchEmbedding(args.records[1].embedding, args.b))

RECURSIVE SumSquares(_)
SumSquares(a) == IF a = <<>> THEN 0 ELSE Head(a) * Head(a) + SumSquares(Tail(a))
Normalized(a) == SumSquares(a) = One

\* C4: match_embedding lies in [-1, 1], is symmetric in its arguments, and is
\* 1 on (a, a) for every L2-normalized a.
C4_MatchClampedSymmetric ==
    ret.op = "match_embedding" =>
        /\ ret.val >= -One /\ ret.val <= One
        /\ ret.val = MatchEmbedding(args.b, args.a)
        /\ (args.a = args.b /\ Normalized(args.a)) => ret.val = One

C4_Witness ==
    /\ ret.op = "match_embedding"
    /\ args.a = args.b /\ Normalized(args.a) /\ Len(args.a) = 2
    /\ ret.val = One

\* C5: enroll saves exactly one new record and returns success whenever at
\* least one frame passed the pipeline, and returns the 'failed to detect a
\* face' error exactly when no frame succeeded over the whole budget.
C5_EnrollFailsOnlyWithoutFace ==
    (wf = "enroll" /\ pc = "done" /\ result # "Err:open") =>
        /\ hist # <<>> =>
             /\ result = "Ok"
             /\ Len(store[user]) = Len(storeBefore[user]) + 1
        /\ result = "Err:no_face" <=> (hist = <<>> /\ acquired = MAX_ATTEMPTS)

\* the earliest frame of h with the maximal detector score
EarliestMax(h) ==
    CHOOSE k \in 1..Len(h) :
        /\ \A j \in 1..Len(h) : h[j].score <= h[k].score
        /\ \A j \in 1..(k - 1) : h[j].score < h[k].score

\* C6: throughout enroll the retained detection and embedding come from the
\* same frame, the earliest frame with the maximal detector score so far, and
\* the record saved at the end holds that frame's embedding.
C6_BestPairFromBestFrame ==
    wf = "enroll" =>
        /\ hist = <<>> => (best_detection = None /\ best_embedding = None)
        /\ hist # <<>> =>
             LET k == EarliestMax(hist) IN
             /\ best_detection = Some([frame |-> k, score |-> hist[k].score])
             /\ best_embedding = Some([frame |-> k, vector |-> hist[k].vector])
             /\ result = "Ok" =>
                  store[user] = Append(storeBefore[user], FaceRecord(hist[k].vector))

C6_Witness ==
    /\ wf = "enroll" /\ result = "Ok"
    /\ Len(hist) = 2
    /\ hist[1].score = hist[2].score
    /\ hist[1].vector # hist[2].vector
    /\ store[user][Len(store[user])] = FaceRecord(hist[1].vector)

\* C7: a frame-acquisition error in a scan iteration (enroll, test, PAM) does
\* not end the scan: with budget left the loop is still scanning.
C7_CaptureErrorSkipped ==
    (pc # "idle" /\ last = "capture" /\ acquired < Budget(wf)) => pc = "scan"

C9_EndsOnlyBySuccessOrExhaustion ==
    /\ acquired <= Budget(wf)
    /\ (pc = "done" /\ acquired > 0 /\ ~RunSuccess) => acquired = Budget(wf)

\* C10: a run that ends in failure leaves the store exactly as it was before
\* the run, and authentication runs never write to the store.
C10_NoWriteOnFailure ==
    /\ wf \in {"test", "pam"} => store = storeBefore
    /\ (wf = "enroll" /\ result # "Ok") => store = storeBefore

C10_Witness ==
    /\ wf = "enroll" /\ pc = "done" /\ result = "Err:no_face"
    /\ store[user] # <<>>
    /\ store = storeBefore

----------------------------------------------------------------------------
(* howrs-vision/src/face.rs: compute_iou and nms                            *)
(* Boxes are <<x, y, w, h>> with integer coordinates; an IoU is the exact   *)
(* fraction [num, den] with den > 0; thresholds are fractions too.          *)

Frac(n, d) == [num |-> n, den |-> d]
FracGt(p, q) == p.num * q.den > q.num * p.den

ComputeIouNoOverlapTerm(a, b) ==
    LET x1 == Max2(a[1], b[1])
        y1 == Max2(a[2], b[2])
        x2 == Min2(a[1] + a[3], b[1] + b[3])
        y2 == Min2(a[2] + a[4], b[2] + b[4])
    IN IF x2 <= x1 \/ y2 <= y1 THEN Frac(0, 1)
       ELSE Frac((x2 - x1) * (y2 - y1), a[3] * a[4] + b[3] * b[4])
\* fn compute_iou(a: &[f32; 4], b: &[f32; 4]) -> f32
ComputeIou(a, b) ==
    LET x1 == Max2(a[1], b[1])
        y1 == Max2(a[2], b[2])
        x2 == Min2(a[1] + a[3], b[1] + b[3])
        y2 == Min2(a[2] + a[4], b[2] + b[4])
    IN IF x2 <= x1 \/ y2 <= y1 THEN Frac(0, 1)
       ELSE LET inter == (x2 - x1) * (y2 - y1)
                area_a == a[3] * a[4]
                area_b == b[3] * b[4]
            IN Frac(inter, area_a + area_b - inter)

\* Detection: landmarks stands for the 10 landmark floats
Detection(bbox, score, landmarks) ==
    [bbox |-> bbox, score |-> score, landmarks |-> landmarks]

\* sorted.sort_by(|a, b| b.score.partial_cmp(&a.score).unwrap()): a stable sort
RECURSIVE InsertDesc(_, _)
InsertDesc(sorted, d) ==
    IF sorted = <<>> THEN <<d>>
    ELSE IF Head(sorted).score >= d.score
         THEN <<Head(sorted)>> \o InsertDesc(Tail(sorted), d)
         ELSE <<d>> \o sorted

RECURSIVE SortDescUpTo(_, _)
SortDescUpTo(dets, n) ==
    IF n = 0 THEN <<>> ELSE InsertDesc(SortDescUpTo(dets, n - 1), dets[n])
SortDesc(dets) == SortDescUpTo(dets, Len(dets))

SuppressesAtThreshold(iou, iou_threshold) == ~FracGt(iou_threshold, iou)
\* if iou > iou_threshold { suppressed[j] = true; }
Suppresses(iou, iou_threshold) == FracGt(iou, iou_threshold)

\* the loop `for i in 0..sorted.len()`; keep holds indices into sorted
RECURSIVE NmsLoop(_, _, _, _, _)
NmsLoop(sorted, iou_threshold, k, suppressed, keep) ==
    IF k > Len(sorted) THEN keep
    ELSE IF suppressed[k]
         THEN NmsLoop(sorted, iou_threshold, k + 1, suppressed, keep)
         ELSE NmsLoop(sorted, iou_threshold, k + 1,
                      [j \in 1..Len(sorted) |->
                          \/ suppressed[j]
                          \/ /\ j > k
                             /\ Suppresses(ComputeIou(sorted[k].bbox, sorted[j].bbox),
                                           iou_threshold)],
                      Append(keep, k))

\* pub fn nms(detections: &[Detection], iou_threshold: f32) -> Vec<Detection>
Nms(dets, iou_threshold) ==
    IF dets = <<>> THEN <<>>
    ELSE LET sorted == SortDesc(dets)
             keep == NmsLoop(sorted, iou_threshold, 1,
                             [j \in 1..Len(sorted) |-> FALSE], <<>>)
         IN [k \in 1..Len(keep) |-> sorted[keep[k]]]

(* Bounds *)

\* detections passed to a direct nms call
MaxDets == 3
\* largest coordinate and extent of the boxes passed to compute_iou
MaxCoord == 2

NmsBoxes == {<<0, 0, 2, 2>>, <<1, 0, 2, 2>>, <<1, 1, 2, 2>>, <<5, 5, 2, 2>>}
NmsScores == {70, 80, 90}
Taus == {Frac(0, 1), Frac(3, 10), Frac(1, 3), Frac(1, 1)}
IouBoxes ==
    {<<x, y, w, h>> : x \in 0..MaxCoord, y \in 0..MaxCoord,
                      w \in 0..MaxCoord, h \in 0..MaxCoord}

CallComputeIou ==
    /\ ret.op = "none"
    /\ \E a \in IouBoxes, b \in IouBoxes :
         /\ args' = [a |-> a, b |-> b]
         /\ ret' = [op |-> "compute_iou", val |-> ComputeIou(a, b)]
    /\ UNCHANGED scanVars

CallNms ==
    /\ ret.op = "none"
    /\ \E ds \in SeqsUpTo(NmsBoxes \X NmsScores, MaxDets), tau \in Taus :
         LET dets == [k \in 1..Len(ds) |-> Detection(ds[k][1], ds[k][2], k)] IN
         /\ args' = [dets |-> dets, tau |-> tau]
         /\ ret' = [op |-> "nms", val |-> Nms(dets, tau)]
    /\ UNCHANGED scanVars

NextNms == CallComputeIou \/ CallNms \/ Return

SpecNms == Init /\ [][NextNms]_vars

Range(q) == {q[k] : k \in 1..Len(q)}

\* d comes before e in the stable descending sort of the input
Precedes(d, e) ==
    d.score > e.score \/ (d.score = e.score /\ d.landmarks < e.landmarks)

\* C11: nms returns the greedy selection over the input stably sorted by
\* descending score: a sub-list of the sorted input with every kept detection
\* unchanged, containing a highest-scoring detection, with no two kept
\* detections of IoU > tau, and every dropped detection has IoU > tau with a
\* kept detection that precedes it in the sorted order.
C11_NmsGreedy ==
    ret.op = "nms" =>
        LET out == ret.val
            dets == args.dets
            tau == args.tau
        IN /\ Len(out) <= Len(dets)
           /\ Range(out) \subseteq Range(dets)
           /\ \A k, l \in 1..Len(out) : k < l => Precedes(out[k], out[l])
           /\ dets # <<>> =>
                \E k \in 1..Len(out) : \A d \in Range(dets) : d.score <= out[k].score
           /\ \A k, l \in 1..Len(out) :
                k # l => ~FracGt(ComputeIou(out[k].bbox, out[l].bbox), tau)
           /\ \A d \in Range(dets) \ Range(out) :
                \E e \in Range(out) :
                    Precedes(e, d) /\ FracGt(ComputeIou(e.bbox, d.bbox), tau)

C11_Witness ==
    /\ ret.op = "nms"
    /\ Len(args.dets) = 3 /\ Len(ret.val) = 2
    /\ args.tau = Frac(3, 10)
    /\ args.dets[1].score = 90 /\ args.dets[2].score = 80 /\ args.dets[3].score = 90
    /\ ret.val = <<args.dets[1], args.dets[3]>>

CellsOf(a) ==
    {<<px, py>> \in (0..(2 * MaxCoord + 1)) \X (0..(2 * MaxCoord + 1)) :
        /\ a[1] <= px /\ px < a[1] + a[3]
        /\ a[2] <= py /\ py < a[2] + a[4]}

Apart(a, b) ==
    \/ a[1] + a[3] <= b[1] \/ b[1] + b[3] <= a[1]
    \/ a[2] + a[4] <= b[2] \/ b[2] + b[4] <= a[2]

\* C12: compute_iou is intersection area over union area: 1 on (A, A) for a
\* box of positive width and height, 0 for boxes that are disjoint or only
\* touch, symmetric, and within [0, 1] for boxes of positive width and height.
C12_IouProperties ==
    ret.op = "compute_iou" =>
        LET a == args.a
            b == args.b
            positive == a[3] > 0 /\ a[4] > 0 /\ b[3] > 0 /\ b[4] > 0
        IN /\ ret.val.den > 0
           /\ ret.val = ComputeIou(b, a)
           /\ (a = b /\ positive) => ret.val.num = ret.val.den
           /\ Apart(a, b) => ret.val.num = 0
           /\ positive =>
                /\ 0 <= ret.val.num /\ ret.val.num <= ret.val.den
                /\ ret.val.num * Cardinality(CellsOf(a) \cup CellsOf(b))
                     = ret.val.den * Cardinality(CellsOf(a) \cap CellsOf(b))

C12_Witness ==
    /\ ret.op = "compute_iou"
    /\ args.a = <<0, 0, 2, 2>> /\ args.b = <<1, 1, 2, 2>>
    /\ ret.val = Frac(1, 7)

----------------------------------------------------------------------------
(* howrs-vision/src/yunet.rs: decode_detections                             *)
(* Network deltas are in units of 1/10, scores in units of 1/100; decoded   *)
(* coordinates are exact fractions.  An Array2 is kept sparsely: rows, the  *)
(* row every unlisted index holds (default) and the listed rows (hot).      *)

\* target_size of detect_faces
TARGET_SIZE == 640

\* const STRIDES: [usize; 3] = [8, 16, 32]
STRIDES == <<8, 16, 32>>

Array2(rows, default, hot) == [rows |-> rows, default |-> default, hot |-> hot]
At(t, idx) == IF idx \in DOMAIN t.hot THEN t.hot[idx] ELSE t.default

RawDetection(bbox, score, landmarks) ==
    [bbox |-> bbox, score |-> score, landmarks |-> landmarks]

DecodeAtTransposed(stride, row, col, score, d, lm, input_size) ==
    RawDetection(
        <<Frac(2 * (10 * row + d[1]) * stride - d[3] * stride, 20 * input_size),
          Frac(2 * (10 * col + d[2]) * stride - d[4] * stride, 20 * input_size),
          Frac(d[3] * stride, 10 * input_size),
          Frac(d[4] * stride, 10 * input_size)>>,
        score,
        [k \in 1..10 |->
            IF k % 2 = 1 THEN Frac((10 * row + lm[k]) * stride, 10 * input_size)
            ELSE Frac((10 * col + lm[k]) * stride, 10 * input_size)])
\* the body of the loops over i (row) and j (col): one grid location that passed the filter
DecodeAt(stride, row, col, score, d, lm, input_size) ==
    LET cx_px == Frac((10 * col + d[1]) * stride, 10)
        cy_px == Frac((10 * row + d[2]) * stride, 10)
        w_px == Frac(d[3] * stride, 10)
        h_px == Frac(d[4] * stride, 10)
        cx == Frac(cx_px.num, cx_px.den * input_size)
        cy == Frac(cy_px.num, cy_px.den * input_size)
        w == Frac(w_px.num, w_px.den * input_size)
        h == Frac(h_px.num, h_px.den * input_size)
        x == Frac(2 * cx.num - w.num, 2 * cx.den)
        y == Frac(2 * cy.num - h.num, 2 * cy.den)
    IN RawDetection(
        <<x, y, w, h>>,
        score,
        [k \in 1..10 |->
            IF k % 2 = 1 THEN Frac((10 * col + lm[k]) * stride, 10 * input_size)
            ELSE Frac((10 * row + lm[k]) * stride, 10 * input_size)])

RECURSIVE Ascending(_)
Ascending(S) ==
    IF S = {} THEN <<>>
    ELSE LET m == CHOOSE x \in S : \A y \in S : x <= y
         IN <<m>> \o Ascending(S \ {m})

\* one stride: the grid locations in row-major order, skipping score < threshold
DecodeStride(scores, bboxes, landmarks, stride, score_threshold, input_size) ==
    LET feature_size == input_size \div stride
        passing == Ascending({idx \in 0..(feature_size * feature_size - 1) :
                                 ~(At(scores, idx) < score_threshold)})
    IN [k \in 1..Len(passing) |->
           DecodeAt(stride, passing[k] \div feature_size, passing[k] % feature_size,
                    At(scores, passing[k]), At(bboxes, passing[k]),
                    At(landmarks, passing[k]), input_size)]

\* pub fn decode_detections(..) -> Result<Vec<RawDetection>>
DecodeDetections(cls_scores, bbox_preds, landmark_preds, score_threshold, input_size) ==
    IF \E s \in 1..3 :
          cls_scores[s].rows # (input_size \div STRIDES[s]) * (input_size \div STRIDES[s])
    THEN [ok |-> FALSE, err |-> "Expected boxes for stride", dets |-> <<>>]
    ELSE [ok |-> TRUE, err |-> "",
          dets |-> DecodeStride(cls_scores[1], bbox_preds[1], landmark_preds[1],
                                STRIDES[1], score_threshold, input_size)
                   \o DecodeStride(cls_scores[2], bbox_preds[2], landmark_preds[2],
                                   STRIDES[2], score_threshold, input_size)
                   \o DecodeStride(cls_scores[3], bbox_preds[3], landmark_preds[3],
                                   STRIDES[3], score_threshold, input_size)]

(* Bounds *)

\* grid locations of one decode call that hold other than the default row
MaxHot == 2

\* the grid locations (stride index, row, column) that may be hot
HotLocs == {<<1, 0, 0>>, <<1, 79, 78>>, <<2, 3, 7>>, <<3, 10, 10>>, <<3, 19, 0>>}

\* what a hot location holds: score, bbox deltas, landmark deltas
HotCells ==
    {[score |-> 90, bbox |-> <<5, 3, 40, 40>>,
      kps |-> <<0, 0, 0, 0, 0, 0, 0, 0, 0, 0>>],
     [score |-> 50, bbox |-> <<-2, 7, 10, 25>>,
      kps |-> <<1, 2, 3, 4, 5, 6, 7, 8, 9, 10>>],
     [score |-> 40, bbox |-> <<0, 0, 0, -10>>,
      kps |-> <<-5, 12, 0, 3, 7, -1, 2, 2, 9, 4>>]}

ScoreThresholds == {50, 60}

FeatureSize(s, input_size) == input_size \div STRIDES[s]
LocIdx(loc, input_size) == loc[2] * FeatureSize(loc[1], input_size) + loc[3]

\* the three tensors of one kind, given what the hot locations hold
Tensors(cells, field, default, extra_rows, input_size) ==
    [s \in 1..3 |->
        Array2(FeatureSize(s, input_size) * FeatureSize(s, input_size)
                 + (IF s = 1 THEN extra_rows ELSE 0),
               default,
               [idx \in {LocIdx(loc, input_size) : loc \in {l \in DOMAIN cells : l[1] = s}}
                  |-> LET loc == CHOOSE l \in DOMAIN cells :
                                    l[1] = s /\ LocIdx(l, input_size) = idx
                      IN cells[loc][field]])]

Zeros(n) == [k \in 1..n |-> 0]

CallDecodeDetections ==
    /\ ret.op = "none"
    /\ \E hs \in {h \in SUBSET HotLocs : Cardinality(h) <= MaxHot} :
       \E cells \in [hs -> HotCells], thr \in ScoreThresholds, extra_rows \in {0, 1} :
         LET cls == Tensors(cells, "score", 0, extra_rows, TARGET_SIZE)
             bbox == Tensors(cells, "bbox", Zeros(4), 0, TARGET_SIZE)
             kps == Tensors(cells, "kps", Zeros(10), 0, TARGET_SIZE)
         IN /\ args' = [cls_scores |-> cls, bbox_preds |-> bbox, landmark_preds |-> kps,
                        score_threshold |-> thr, input_size |-> TARGET_SIZE]
            /\ ret' = [op |-> "decode_detections",
                       val |-> DecodeDetections(args'.cls_scores, args'.bbox_preds,
                                                args'.landmark_preds,
                                                args'.score_threshold,
                                                args'.input_size)]
    /\ UNCHANGED scanVars

NextDecode == CallDecodeDetections \/ Return

SpecDecode == Init /\ [][NextDecode]_vars

FracEq(p, q) == p.num * q.den = q.num * p.den

\* the grid locations (stride index, row, column) whose score is >= the threshold
Passing(a) ==
    UNION {LET fs == FeatureSize(s, a.input_size)
           IN {<<s, idx \div fs, idx % fs>> :
                 idx \in {n \in 0..(fs * fs - 1) :
                            At(a.cls_scores[s], n) >= a.score_threshold}} : s \in 1..3}

\* the RawDetection the decode rule gives for grid location loc
IsDecodedFrom(det, loc, a) ==
    LET s == STRIDES[loc[1]]
        row == loc[2]
        col == loc[3]
        idx == LocIdx(loc, a.input_size)
        d == At(a.bbox_preds[loc[1]], idx)
        lm == At(a.landmark_preds[loc[1]], idx)
        S == a.input_size
    IN /\ det.score = At(a.cls_scores[loc[1]], idx)
       \* w = dw * stride / S, h = dh * stride / S
       /\ FracEq(det.bbox[3], Frac(d[3] * s, 10 * S))
       /\ FracEq(det.bbox[4], Frac(d[4] * s, 10 * S))
       \* x = (col + dx) * stride / S - w / 2, y = (row + dy) * stride / S - h / 2
       /\ FracEq(det.bbox[1], Frac(2 * (10 * col + d[1]) * s - d[3] * s, 20 * S))
       /\ FracEq(det.bbox[2], Frac(2 * (10 * row + d[2]) * s - d[4] * s, 20 * S))
       /\ \A k \in 1..5 :
            /\ FracEq(det.landmarks[2 * k - 1], Frac((10 * col + lm[2 * k - 1]) * s, 10 * S))
            /\ FracEq(det.landmarks[2 * k], Frac((10 * row + lm[2 * k]) * s, 10 * S))

\* C13: decode_detections emits exactly one RawDetection for each grid
\* location whose score is >= score_threshold and none for the others, decoded
\* as cx = (j + dx) * stride, cy = (i + dy) * stride, w = dw * stride,
\* h = dh * stride, all over input_size, x = cx - w/2, y = cy - h/2, landmarks
\* likewise and the score copied; stride 32, cell (10, 10), deltas
\* (0.5, 0.3, 4.0, 4.0) on a 640 canvas gives bbox (0.425, 0.415, 0.2, 0.2).
C13_DecodeGrid ==
    (ret.op = "decode_detections" /\ ret.val.ok) =>
        LET out == ret.val.dets
            passing == Passing(args)
        IN /\ Len(out) = Cardinality(passing)
           /\ \A loc \in passing :
                Cardinality({k \in 1..Len(out) : IsDecodedFrom(out[k], loc, args)}) = 1
           /\ \A k \in 1..Len(out) :
                (/\ <<3, 10, 10>> \in passing
                 /\ IsDecodedFrom(out[k], <<3, 10, 10>>, args)
                 /\ At(args.bbox_preds[3], 210) = <<5, 3, 40, 40>>)
                => /\ FracEq(out[k].bbox[1], Frac(425, 1000))
                   /\ FracEq(out[k].bbox[2], Frac(415, 1000))
                   /\ FracEq(out[k].bbox[3], Frac(2, 10))
                   /\ FracEq(out[k].bbox[4], Frac(2, 10))

C13_Witness ==
    /\ ret.op = "decode_detections" /\ ret.val.ok
    /\ args.score_threshold = 50
    /\ Len(ret.val.dets) = 2
    /\ ret.val.dets[1].score = 50
    /\ ret.val.dets[2].score = 90
    /\ FracEq(ret.val.dets[2].bbox[1], Frac(425, 1000))
    /\ FracEq(ret.val.dets[2].bbox[2], Frac(415, 1000))

----------------------------------------------------------------------------
(* howrs-vision/src/yunet.rs: parse_yunet_outputs                           *)
(* A detector output is its shape and the number of f32 values it holds;    *)
(* the session yields tensors whose data length is the product of the shape.*)

RECURSIVE ProductUpTo(_, _)
ProductUpTo(shape, n) == IF n = 0 THEN 1 ELSE ProductUpTo(shape, n - 1) * shape[n]
Tensor(shape) == [shape |-> shape, len |-> ProductUpTo(shape, Len(shape))]

\* one `if let Some((shape, data)) = outputs.get(idx)` block; "" when it passes
ParseOne(outputs, idx, expected_count, last_dim, checks_count) ==
    IF idx + 1 > Len(outputs) THEN "Missing output"
    ELSE LET shape == outputs[idx + 1].shape
             len == outputs[idx + 1].len
         IN IF Len(shape) # 3 \/ shape[1] # 1 \/ shape[3] # last_dim
            THEN "Unexpected shape"
            ELSE IF checks_count /\ shape[2] # expected_count
            THEN "Expected locations"
            ELSE IF len # expected_count * last_dim
            THEN "ShapeError"
            ELSE ""

\* pub fn parse_yunet_outputs(outputs, input_size) -> Result<..>
ParseYunetOutputs(outputs, input_size) ==
    LET expected_counts == [s \in 1..3 |-> (input_size \div STRIDES[s]) * (input_size \div STRIDES[s])]
        \* the twelve blocks in program order: cls 0-2, obj 3-5, bbox 6-8, kps 9-11
        errs == [n \in 1..12 |->
                    ParseOne(outputs, n - 1, expected_counts[((n - 1) % 3) + 1],
                             IF n <= 6 THEN 1 ELSE IF n <= 9 THEN 4 ELSE 10,
                             n <= 3)]
        failed == {n \in 1..12 : errs[n] # ""}
    IN IF failed = {} THEN [ok |-> TRUE, err |-> ""]
       ELSE [ok |-> FALSE, err |-> errs[CHOOSE n \in failed : \A m \in failed : n <= m]]

\* the documented output list: cls, obj, bbox, kps for strides 8, 16, 32
ValidOutputs(input_size) ==
    [n \in 1..12 |->
        Tensor(<<1,
                 (input_size \div STRIDES[((n - 1) % 3) + 1])
                   * (input_size \div STRIDES[((n - 1) % 3) + 1]),
                 IF n <= 6 THEN 1 ELSE IF n <= 9 THEN 4 ELSE 10>>)]

(* Bounds *)

\* tensors a detector may yield beyond the documented twelve
MaxExtra == 1

AltShapes ==
    {<<1, n, c>> : n \in {100, 400, 1600, 6400}, c \in {1, 2, 4, 10}}
      \cup {<<6400, 1>>, <<2, 6400, 1>>, <<1, 6400, 1, 1>>, <<1, 1, 6400>>}

CallParseYunetOutputs ==
    /\ ret.op = "none"
    /\ \E outputs \in
            {[ValidOutputs(TARGET_SIZE) EXCEPT ![k] = Tensor(sh)] :
                 k \in 1..12, sh \in AltShapes}
              \cup {SubSeq(ValidOutputs(TARGET_SIZE), 1, n) : n \in 0..12}
              \cup {ValidOutputs(TARGET_SIZE) \o [k \in 1..Len(ex) |-> Tensor(ex[k])] :
                      ex \in SeqsUpTo(AltShapes, MaxExtra)} :
         /\ args' = [outputs |-> outputs, input_size |-> TARGET_SIZE]
         /\ ret' = [op |-> "parse_yunet_outputs",
                    val |-> ParseYunetOutputs(outputs, TARGET_SIZE)]
    /\ UNCHANGED scanVars

NextParse == CallParseYunetOutputs \/ Return

SpecParse == Init /\ [][NextParse]_vars

\* C14: every output list that is not exactly the twelve documented tensors
\* in the documented order is rejected with an error: extra tensors and
\* obj / bbox / landmark tensors with a wrong location count included.
C14_RejectsMalformed ==
    (ret.op = "parse_yunet_outputs" /\ ret.val.ok)
        => args.outputs = ValidOutputs(args.input_size)

\* wrong counts and wrong shapes among the first twelve tensors are rejected
C14_FirstTwelveValidated ==
    (ret.op = "parse_yunet_outputs" /\ ret.val.ok)
        => SubSeq(args.outputs, 1, 12) = ValidOutputs(args.input_size)

----------------------------------------------------------------------------
(* howrs-vision/src/face.rs: align_face                                     *)
(* Coordinates are exact rationals kept in lowest terms.  The reference eye *)
(* positions are in units of 1/10 pixel and the reference eye distance is   *)
(* the square root rounded down to 1/10 pixel.  scale * cos(atan2(dy, dx))  *)
(* is scale * dx / |(dx, dy)|, so a and b need no irrational value.         *)
(* An eye distance of zero makes scale infinite and b, c, tx, ty and det    *)
(* NaN: the transform is then marked not finite.                            *)

Abs(n) == IF n < 0 THEN -n ELSE n

RECURSIVE GCD(_, _)
GCD(m, n) == IF n = 0 THEN m ELSE GCD(n, m % n)

FracNorm(n, d) ==
    LET g == GCD(Abs(n), Abs(d))
    IN IF d < 0 THEN Frac(-(n \div g), -(d \div g)) ELSE Frac(n \div g, d \div g)
FracInt(n) == Frac(n, 1)
FracNeg(p) == Frac(-p.num, p.den)
FracAdd(p, q) ==
    LET g == GCD(p.den, q.den)
    IN FracNorm(p.num * (q.den \div g) + q.num * (p.den \div g), (p.den \div g) * q.den)
FracSub(p, q) == FracAdd(p, FracNeg(q))
FracMul(p, q) ==
    LET g1 == GCD(Abs(p.num), q.den)
        g2 == GCD(Abs(q.num), p.den)
    IN IF p.num = 0 \/ q.num = 0 THEN Frac(0, 1)
       ELSE Frac((p.num \div g1) * (q.num \div g2), (p.den \div g2) * (q.den \div g1))
FracDiv(p, q) ==
    FracMul(p, IF q.num < 0 THEN Frac(-q.den, -q.num) ELSE Frac(q.den, q.num))
FracFloor(p) == p.num \div p.den
FracLt(p, q) == FracGt(q, p)
FracGe(p, q) == ~FracGt(q, p)
FracAbs(p) == Frac(Abs(p.num), p.den)

\* the integer square root, by bisection; 46340 is the largest root of a 32-bit value
RECURSIVE ISqrtIn(_, _, _)
ISqrtIn(n, lo, hi) ==
    IF lo = hi THEN lo
    ELSE LET mid == (lo + hi + 1) \div 2
         IN IF mid * mid <= n THEN ISqrtIn(n, mid, hi) ELSE ISqrtIn(n, lo, mid - 1)
ISqrt(n) == ISqrtIn(n, 0, Min2(n, 46340))

\* ref_left_eye = (38.3, 51.7), ref_right_eye = (73.5, 51.5), in 1/10 pixel
REF_LEFT_EYE == <<383, 517>>
REF_RIGHT_EYE == <<735, 515>>
\* the 112 of the SFace input the reference positions are given for
REF_SIZE == 112

\* ref_eye_dist, in 1/10 pixel
RefEyeDist ==
    ISqrt((REF_RIGHT_EYE[1] - REF_LEFT_EYE[1]) * (REF_RIGHT_EYE[1] - REF_LEFT_EYE[1])
          + (REF_RIGHT_EYE[2] - REF_LEFT_EYE[2]) * (REF_RIGHT_EYE[2] - REF_LEFT_EYE[2]))

\* ref_center_scaled
RefCenterScaled(size) ==
    <<FracNorm((REF_LEFT_EYE[1] + REF_RIGHT_EYE[1]) * size, 2 * 10 * REF_SIZE),
      FracNorm((REF_LEFT_EYE[2] + REF_RIGHT_EYE[2]) * size, 2 * 10 * REF_SIZE)>>

AlignTransformNoShearSign(left_eye, right_eye, size) ==
    LET eye_dx == right_eye[1] - left_eye[1]
        eye_dy == right_eye[2] - left_eye[2]
        dist2 == eye_dx * eye_dx + eye_dy * eye_dy
    IN IF dist2 = 0 THEN [finite |-> FALSE]
       ELSE
        LET k == FracNorm(size * RefEyeDist, REF_SIZE * 10)
            a == FracMul(k, FracNorm(eye_dx, dist2))
            b == FracMul(k, FracNorm(eye_dy, dist2))
            eye_center == <<FracNorm(left_eye[1] + right_eye[1], 2),
                            FracNorm(left_eye[2] + right_eye[2], 2)>>
            ref_center_scaled == RefCenterScaled(size)
        IN [finite |-> TRUE, a |-> a, b |-> b, c |-> b, d |-> a,
            tx |-> FracSub(ref_center_scaled[1],
                           FracAdd(FracMul(a, eye_center[1]), FracMul(b, eye_center[2]))),
            ty |-> FracSub(ref_center_scaled[2],
                           FracAdd(FracMul(b, eye_center[1]), FracMul(a, eye_center[2])))]
\* the affine transform of align_face: output = [a, b; c, d] * input + [tx, ty]
AlignTransform(left_eye, right_eye, size) ==
    LET eye_dx == right_eye[1] - left_eye[1]
        eye_dy == right_eye[2] - left_eye[2]
        \* actual_eye_dist squared
        dist2 == eye_dx * eye_dx + eye_dy * eye_dy
    IN IF dist2 = 0 THEN [finite |-> FALSE]
       ELSE
        LET \* scale * actual_eye_dist = (size / 112) * ref_eye_dist
            k == FracNorm(size * RefEyeDist, REF_SIZE * 10)
            \* scale * cos_angle and scale * sin_angle
            a == FracMul(k, FracNorm(eye_dx, dist2))
            b == FracMul(k, FracNorm(eye_dy, dist2))
            c == FracNeg(b)
            d == a
            eye_center == <<FracNorm(left_eye[1] + right_eye[1], 2),
                            FracNorm(left_eye[2] + right_eye[2], 2)>>
            ref_center_scaled == RefCenterScaled(size)
        IN [finite |-> TRUE, a |-> a, b |-> b, c |-> c, d |-> d,
            tx |-> FracSub(ref_center_scaled[1],
                           FracAdd(FracMul(a, eye_center[1]), FracMul(b, eye_center[2]))),
            ty |-> FracSub(ref_center_scaled[2],
                           FracAdd(FracMul(c, eye_center[1]), FracMul(d, eye_center[2])))]

\* det = a * d - b * c
Det(t) == FracSub(FracMul(t.a, t.d), FracMul(t.b, t.c))

SourceCoordOfRotation(t, out_x, out_y) ==
    LET tmp_x == FracSub(FracInt(out_x), t.tx)
        tmp_y == FracSub(FracInt(out_y), t.ty)
    IN <<FracDiv(FracAdd(FracMul(t.d, tmp_x), FracMul(t.b, tmp_y)), Det(t)),
         FracDiv(FracAdd(FracMul(t.c, tmp_x), FracMul(t.a, tmp_y)), Det(t))>>
\* (in_x, in_y): the inverse transform of one output pixel
SourceCoord(t, out_x, out_y) ==
    LET tmp_x == FracSub(FracInt(out_x), t.tx)
        tmp_y == FracSub(FracInt(out_y), t.ty)
        det == Det(t)
    IN <<FracDiv(FracSub(FracMul(t.d, tmp_x), FracMul(t.b, tmp_y)), det),
         FracDiv(FracAdd(FracMul(FracNeg(t.c), tmp_x), FracMul(t.a, tmp_y)), det)>>

\* the bounds test of the sampling loop
InBounds(img, in) ==
    /\ FracGe(in[1], FracInt(0)) /\ FracLt(in[1], FracInt(img.w))
    /\ FracGe(in[2], FracInt(0)) /\ FracLt(in[2], FracInt(img.h))

\* bilinear interpolation of one channel, truncated to u8
Bilinear(img, in) ==
    LET x0 == FracFloor(in[1])
        y0 == FracFloor(in[2])
        x1 == Min2(x0 + 1, img.w - 1)
        y1 == Min2(y0 + 1, img.h - 1)
        fx == FracSub(in[1], FracInt(x0))
        fy == FracSub(in[2], FracInt(y0))
        one == FracInt(1)
        w00 == FracMul(FracSub(one, fx), FracSub(one, fy))
        w10 == FracMul(fx, FracSub(one, fy))
        w01 == FracMul(FracSub(one, fx), fy)
        w11 == FracMul(fx, fy)
    IN FracFloor(FracAdd(FracAdd(FracMul(FracInt(img.px[<<x0, y0>>]), w00),
                                 FracMul(FracInt(img.px[<<x1, y0>>]), w10)),
                         FracAdd(FracMul(FracInt(img.px[<<x0, y1>>]), w01),
                                 FracMul(FracInt(img.px[<<x1, y1>>]), w11))))

Image(w, h, px) == [w |-> w, h |-> h, px |-> px]

\* pub fn align_face(img, detection, size) -> Result<DynamicImage>
AlignFace(img, detection, size) ==
    LET t == AlignTransform(<<detection.landmarks[1], detection.landmarks[2]>>,
                            <<detection.landmarks[3], detection.landmarks[4]>>, size)
    IN [ok |-> TRUE,
        image |-> Image(size, size,
            [p \in (0..(size - 1)) \X (0..(size - 1)) |->
                IF t.finite /\ InBounds(img, SourceCoord(t, p[1], p[2]))
                THEN Bilinear(img, SourceCoord(t, p[1], p[2]))
                ELSE 0])]

(* howrs-vision/examples/test_transform_math.rs: the two-point similarity   *)
(* transform.  scale * cos(theta) and scale * sin(theta) with                *)
(* theta = atan2(num, den) are taken through their squares, whose roots are *)
(* rational for two point pairs.                                            *)

FracSqrt(p) == Frac(ISqrt(p.num), ISqrt(p.den))
Sign(n) == IF n < 0 THEN -1 ELSE IF n > 0 THEN 1 ELSE 0

TransformMath(src, dst) ==
    LET src_mean == <<FracNorm(src[1][1] + src[2][1], 2), FracNorm(src[1][2] + src[2][2], 2)>>
        dst_mean == <<FracNorm(dst[1][1] + dst[2][1], 2), FracNorm(dst[1][2] + dst[2][2], 2)>>
        \* centred points, doubled to stay integral
        sc == [n \in 1..2 |-> <<2 * src[n][1] - (src[1][1] + src[2][1]),
                                2 * src[n][2] - (src[1][2] + src[2][2])>>]
        dc == [n \in 1..2 |-> <<2 * dst[n][1] - (dst[1][1] + dst[2][1]),
                                2 * dst[n][2] - (dst[1][2] + dst[2][2])>>]
        \* src_norm and dst_norm are the norms of the first coordinates
        src_norm2 == sc[1][1] * sc[1][1] + sc[2][1] * sc[2][1]
        dst_norm2 == dc[1][1] * dc[1][1] + dc[2][1] * dc[2][1]
        scale2 == FracNorm(dst_norm2, src_norm2)
        num == (sc[1][1] * dc[1][2] - sc[1][2] * dc[1][1])
                 + (sc[2][1] * dc[2][2] - sc[2][2] * dc[2][1])
        den == (sc[1][1] * dc[1][1] + sc[1][2] * dc[1][2])
                 + (sc[2][1] * dc[2][1] + sc[2][2] * dc[2][2])
        hyp2 == num * num + den * den
        \* theta = atan2(num, den); atan2(0, 0) = 0
        cos2 == IF hyp2 = 0 THEN Frac(1, 1) ELSE FracNorm(den * den, hyp2)
        sin2 == IF hyp2 = 0 THEN Frac(0, 1) ELSE FracNorm(num * num, hyp2)
        cos_sign == IF hyp2 = 0 THEN 1 ELSE Sign(den)
        a == FracMul(FracInt(cos_sign), FracSqrt(FracMul(scale2, cos2)))
        b == FracMul(FracInt(Sign(num)), FracSqrt(FracMul(scale2, sin2)))
        tx1 == FracSub(dst_mean[1], FracAdd(FracMul(a, src_mean[1]), FracMul(b, src_mean[2])))
        ty1 == FracSub(dst_mean[2],
                       FracAdd(FracMul(FracNeg(b), src_mean[1]), FracMul(a, src_mean[2])))
    IN [scale2 |-> scale2, num |-> num, den |-> den, a |-> a, b |-> b,
        tx |-> tx1, ty |-> ty1,
        out |-> [n \in 1..2 |->
                   <<FracAdd(FracAdd(FracMul(a, FracInt(src[n][1])),
                                     FracMul(b, FracInt(src[n][2]))), tx1),
                     FracAdd(FracAdd(FracMul(FracNeg(b), FracInt(src[n][1])),
                                     FracMul(a, FracInt(src[n][2]))), ty1)>>]]

(* Bounds *)

\* largest output size of an align_face call
MaxSize == 3

\* eye landmark positions, in source pixels
EyePoints == {<<0, 0>>, <<2, 0>>, <<1, 1>>, <<0, 2>>, <<3, 1>>}

AlignImages ==
    {Image(3, 2, [p \in (0..2) \X (0..1) |-> 10 + 40 * p[1] + 90 * p[2]]),
     Image(2, 3, [p \in (0..1) \X (0..2) |-> 255 - 100 * p[1] - 20 * p[2]]),
     Image(3, 3, [p \in (0..2) \X (0..2) |-> IF p[1] = p[2] THEN 255 ELSE 0])}

\* the point pairs of the worked example and pairs that differ from them
ExampleSrc == {<<<<10, 20>>, <<30, 20>>>>, <<<<10, 20>>, <<20, 20>>>>,
               <<<<0, 0>>, <<4, 0>>>>, <<<<30, 20>>, <<10, 20>>>>}
ExampleDst == {<<<<38, 52>>, <<74, 52>>>>, <<<<38, 52>>, <<56, 52>>>>,
               <<<<2, 2>>, <<10, 2>>>>, <<<<74, 52>>, <<38, 52>>>>}

CallAlignFace ==
    /\ ret.op = "none"
    /\ \E img \in AlignImages, left_eye \in EyePoints, right_eye \in EyePoints,
          size \in 0..MaxSize :
         LET detection == Detection(<<0, 0, img.w, img.h>>, 90,
                                    <<left_eye[1], left_eye[2], right_eye[1], right_eye[2],
                                      0, 0, 0, 0, 0, 0>>)
         IN /\ args' = [img |-> img, detection |-> detection, size |-> size]
            /\ ret' = [op |-> "align_face", val |-> AlignFace(img, detection, size)]
    /\ UNCHANGED scanVars

CallTransformMath ==
    /\ ret.op = "none"
    /\ \E src \in ExampleSrc, dst \in ExampleDst :
         /\ args' = [src |-> src, dst |-> dst]
         /\ ret' = [op |-> "transform_math", val |-> TransformMath(src, dst)]
    /\ UNCHANGED scanVars

NextAlign == CallAlignFace \/ CallTransformMath \/ Return

SpecAlign == Init /\ [][NextAlign]_vars

LeftEye(det) == <<det.landmarks[1], det.landmarks[2]>>
RightEye(det) == <<det.landmarks[3], det.landmarks[4]>>

\* C15: align_face fails with an alignment error whenever the left-eye and
\* right-eye landmarks coincide (or are a near-zero distance apart); it never
\* returns Ok with a transform whose determinant is zero or not finite.
C15_FailsOnCoincidingEyes ==
    (ret.op = "align_face" /\ LeftEye(args.detection) = RightEye(args.detection))
        => ~ret.val.ok

\* output = [a, b; c, d] * input + [tx, ty]
Forward(t, p) ==
    <<FracAdd(FracAdd(FracMul(t.a, p[1]), FracMul(t.b, p[2])), t.tx),
      FracAdd(FracAdd(FracMul(t.c, p[1]), FracMul(t.d, p[2])), t.ty)>>

\* |p - q| <= tol in both coordinates
Within(p, q, tol) ==
    /\ ~FracGt(FracAbs(FracSub(p[1], q[1])), tol)
    /\ ~FracGt(FracAbs(FracSub(p[2], q[2])), tol)

\* C20: for source eyes a distance > 0 apart, the forward transform of
\* align_face (scale times the rotation by the eye angle, plus translation)
\* maps the eye midpoint onto the reference midpoint (55.9, 51.6) scaled by
\* N/112 and the two eyes onto the reference eyes scaled by N/112 within half
\* a pixel of the 112 grid; and for source eyes (10,20)/(30,20) and target
\* eyes (38,52)/(74,52) the transform has scale 1.8 and angle 0 and
\* reproduces the target eyes.
C20_ForwardTransform ==
    /\ (ret.op = "align_face" /\ LeftEye(args.detection) # RightEye(args.detection)) =>
         LET l == LeftEye(args.detection)
             r == RightEye(args.detection)
             N == args.size
             t == AlignTransform(l, r, N)
             tol == Frac(N, 2 * 112)
         IN /\ t.finite
            /\ Forward(t, <<FracNorm(l[1] + r[1], 2), FracNorm(l[2] + r[2], 2)>>)
                 = <<FracNorm(559 * N, 1120), FracNorm(516 * N, 1120)>>
            /\ Within(Forward(t, <<FracInt(l[1]), FracInt(l[2])>>),
                      <<FracNorm(383 * N, 1120), FracNorm(517 * N, 1120)>>, tol)
            /\ Within(Forward(t, <<FracInt(r[1]), FracInt(r[2])>>),
                      <<FracNorm(735 * N, 1120), FracNorm(515 * N, 1120)>>, tol)
            /\ (N > 0 => FracGt(Det(t), FracInt(0)))
    /\ (/\ ret.op = "transform_math"
        /\ args.src = <<<<10, 20>>, <<30, 20>>>>
        /\ args.dst = <<<<38, 52>>, <<74, 52>>>>) =>
         /\ FracEq(ret.val.scale2, Frac(18 * 18, 10 * 10))
         /\ ret.val.num = 0 /\ ret.val.den > 0
         /\ ret.val.out = <<<<FracInt(38), FracInt(52)>>, <<FracInt(74), FracInt(52)>>>>

C20_Witness ==
    /\ ret.op = "align_face"
    /\ args.size = 3
    /\ LeftEye(args.detection) = <<0, 2>>
    /\ RightEye(args.detection) = <<3, 1>>
    /\ AlignTransform(<<0, 2>>, <<3, 1>>, 3).finite
    /\ AlignTransform(<<0, 2>>, <<3, 1>>, 3).b.num < 0

\* the transform of the align_face call in args
ArgsTransform == AlignTransform(LeftEye(args.detection), RightEye(args.detection), args.size)

\* p's source coordinate lies inside the source image
SourceInside(img, t, p) ==
    /\ t.finite
    /\ LET src == SourceCoord(t, p[1], p[2])
       IN /\ src[1].num >= 0 /\ src[1].num < img.w * src[1].den
          /\ src[2].num >= 0 /\ src[2].num < img.h * src[2].den

\* the blend of the four pixels around src: along x in both rows, then along y
Blend(img, src) ==
    LET x0 == src[1].num \div src[1].den
        y0 == src[2].num \div src[2].den
        x1 == IF x0 + 1 < img.w THEN x0 + 1 ELSE x0
        y1 == IF y0 + 1 < img.h THEN y0 + 1 ELSE y0
        fx == FracSub(src[1], FracInt(x0))
        fy == FracSub(src[2], FracInt(y0))
        row(y) == FracAdd(FracInt(img.px[<<x0, y>>]),
                          FracMul(fx, FracInt(img.px[<<x1, y>>] - img.px[<<x0, y>>])))
    IN FracAdd(row(y0), FracMul(fy, FracSub(row(y1), row(y0))))

\* C19: align_face(img, det, N) returns an N x N image; a destination pixel
\* whose inverse-mapped source coordinate (the point the forward transform
\* sends to it) lies inside the source image is the bilinear blend of the four
\* nearest source pixels, the neighbours clamped to the image, truncated to
\* u8; every other destination pixel is black.
C19_BilinearResample ==
    ret.op = "align_face" =>
        LET out == ret.val.image
            N == args.size
            t == ArgsTransform
        IN /\ ret.val.ok
           /\ out.w = N /\ out.h = N
           /\ DOMAIN out.px = (0..(N - 1)) \X (0..(N - 1))
           /\ \A p \in DOMAIN out.px :
                IF SourceInside(args.img, t, p)
                THEN LET src == SourceCoord(t, p[1], p[2])
                     IN /\ Forward(t, src) = <<FracInt(p[1]), FracInt(p[2])>>
                        /\ out.px[p] = FracFloor(Blend(args.img, src))
                        /\ out.px[p] \in 0..255
                ELSE out.px[p] = 0

C19_Witness ==
    /\ ret.op = "align_face"
    /\ args.size = 3
    /\ \E p \in DOMAIN ret.val.image.px :
         /\ SourceInside(args.img, ArgsTransform, p)
         /\ SourceCoord(ArgsTransform, p[1], p[2])[1].den # 1
         /\ SourceCoord(ArgsTransform, p[1], p[2])[2].den # 1
         /\ ret.val.image.px[p] > 0
    /\ \E q \in DOMAIN ret.val.image.px : ~SourceInside(args.img, ArgsTransform, q)

\* an align_face call whose eyes coincide returns Ok with an all-black image
C15_Reached ==
    /\ ret.op = "align_face"
    /\ args.size = 3
    /\ LeftEye(args.detection) = RightEye(args.detection)
    /\ ret.val.ok
    /\ \A p \in DOMAIN ret.val.image.px : ret.val.image.px[p] = 0

----------------------------------------------------------------------------
(* howrs-vision/src/face.rs: the preprocessing of detect_faces and          *)
(* encode_face.  The letterbox sizes are truncations of f32 products, so    *)
(* the f32 values are kept exactly: [m, k] is m / 2^k with a mantissa m of  *)
(* at most 24 bits, rounded to nearest, ties to even.                       *)

RECURSIVE Pow2(_)
Pow2(n) == IF n = 0 THEN 1 ELSE 2 * Pow2(n - 1)

RECURSIVE BitLen(_)
BitLen(n) == IF n = 0 THEN 0 ELSE 1 + BitLen(n \div 2)

F32(m, k) == [kind |-> "finite", m |-> m, k |-> k]
F32Inf == [kind |-> "inf", m |-> 0, k |-> 0]
F32NaN == [kind |-> "nan", m |-> 0, k |-> 0]

\* round to nearest, ties to even: kept + 1 when the dropped part is above half
RoundEven(kept, rem, half) ==
    IF rem > half \/ (rem = half /\ kept % 2 = 1) THEN kept + 1 ELSE kept

\* the quotient bit by bit until the mantissa has 24 bits
RECURSIVE DivBits(_, _, _, _)
DivBits(q, r, den, k) ==
    IF q >= Pow2(23) THEN F32(RoundEven(q, 2 * r, den), k)
    ELSE DivBits(2 * q + (IF 2 * r >= den THEN 1 ELSE 0), (2 * r) % den, den, k + 1)

\* num as f32 / den as f32, for integers num > 0 and den >= 0 below 2^13
F32Div(num, den) ==
    IF den = 0 THEN F32Inf ELSE DivBits(num \div den, num % den, den, 0)

\* w as f32 * x, for an integer w below 2^13 and x of F32Div
F32MulInt(w, x) ==
    IF x.kind = "inf" THEN (IF w = 0 THEN F32NaN ELSE F32Inf)
    ELSE
      LET A == w * (x.m \div 4096)
          B == w * (x.m % 4096)
          \* the exact product is (hi * 4096 + lo) / 2^k
          hi == A + (B \div 4096)
          lo == B % 4096
          t == BitLen(hi) - 12
      IN IF t <= 0 THEN F32(hi * 4096 + lo, x.k)
         ELSE IF t <= 12
         THEN F32(RoundEven(hi * Pow2(12 - t) + (lo \div Pow2(t)), lo % Pow2(t), Pow2(t - 1)),
                  x.k - t)
         ELSE F32(RoundEven(hi \div Pow2(t - 12), (hi % Pow2(t - 12)) * 4096 + lo, Pow2(t - 1)),
                  x.k - t)

\* `x as u32`: truncation; NaN is 0 and +inf saturates
F32ToU32(x) ==
    IF x.kind = "nan" THEN 0
    ELSE IF x.kind = "inf" THEN 2147483647
    ELSE IF x.k >= 0 THEN x.m \div Pow2(x.k) ELSE x.m * Pow2(-x.k)

\* the square canvas of detect_faces: scale, resized size and paste offsets
Letterbox(orig_width, orig_height) ==
    LET max_dim == Max2(orig_width, orig_height)
        scale == F32Div(TARGET_SIZE, max_dim)
        new_width == F32ToU32(F32MulInt(orig_width, scale))
        new_height == F32ToU32(F32MulInt(orig_height, scale))
    IN [scale |-> scale,
        new_width |-> new_width, new_height |-> new_height,
        offset_x |-> (TARGET_SIZE - new_width) \div 2,
        offset_y |-> (TARGET_SIZE - new_height) \div 2]

\* img.resize_exact of the image crate, whose code is not part of this
\* repository: it returns an image, and resampling an image without pixels
\* may panic.  It returns no Result.
ResizeExactOutcomes(width, height) ==
    IF width = 0 \/ height = 0 THEN {"image", "panic"} ELSE {"image"}

\* size of the SFace input
ENCODE_SIZE == 112

(* Bounds *)

\* image widths and heights 0..MaxDim, and some camera sizes
MaxDim == 8

ImageDims == (0..MaxDim) \cup {100, 133, 480, 640, 1280}

\* detect_faces up to the input tensor
CallDetectPreprocess ==
    /\ ret.op = "none"
    /\ \E orig_width \in ImageDims, orig_height \in ImageDims :
       \E resized \in ResizeExactOutcomes(orig_width, orig_height) :
         /\ args' = [orig_width |-> orig_width, orig_height |-> orig_height]
         /\ ret' = [op |-> "detect_faces",
                    val |-> [outcome |-> IF resized = "panic" THEN "panic" ELSE "tensor",
                             letterbox |-> Letterbox(orig_width, orig_height)]]
    /\ UNCHANGED scanVars

\* encode_face up to the input tensor
CallEncodePreprocess ==
    /\ ret.op = "none"
    /\ \E width \in ImageDims, height \in ImageDims :
       \E resized \in ResizeExactOutcomes(width, height) :
         /\ args' = [orig_width |-> width, orig_height |-> height]
         /\ ret' = [op |-> "encode_face",
                    val |-> [outcome |-> IF resized = "panic" THEN "panic" ELSE "tensor",
                             width |-> ENCODE_SIZE, height |-> ENCODE_SIZE]]
    /\ UNCHANGED scanVars

NextPreprocess == CallDetectPreprocess \/ CallEncodePreprocess \/ Return

SpecPreprocess == Init /\ [][NextPreprocess]_vars

\* C16: preprocessing an image whose width or height is zero yields an
\* input-size error, in detect_faces (letterbox) and in encode_face (resize):
\* no panic, no division by zero, no tensor.
C16_ZeroSizeIsError ==
    (/\ ret.op \in {"detect_faces", "encode_face"}
     /\ (args.orig_width = 0 \/ args.orig_height = 0))
        => ret.val.outcome = "error"

\* C17: for every input size, letterboxing resizes to (round(width * scale),
\* round(height * scale)) with scale = S / max(width, height) and pastes at
\* ox = floor((S - new_w) / 2), oy = floor((S - new_h) / 2); the longer side
\* becomes exactly S, the resized image fits the S x S canvas and the padding
\* on the two sides of the shorter axis differs by at most 1 pixel.
C17_Letterbox ==
    (ret.op = "detect_faces" /\ args.orig_width > 0 /\ args.orig_height > 0) =>
        LET w == args.orig_width
            h == args.orig_height
            S == TARGET_SIZE
            l == ret.val.letterbox
            max_dim == IF w > h THEN w ELSE h
        IN /\ l.new_width = (2 * w * S + max_dim) \div (2 * max_dim)
           /\ l.new_height = (2 * h * S + max_dim) \div (2 * max_dim)
           /\ (w >= h => l.new_width = S)
           /\ (h >= w => l.new_height = S)
           /\ l.new_width <= S /\ l.new_height <= S
           /\ l.offset_x = (S - l.new_width) \div 2
           /\ l.offset_y = (S - l.new_height) \div 2
           /\ (S - l.new_width - l.offset_x) - l.offset_x \in {0, 1}
           /\ (S - l.new_height - l.offset_y) - l.offset_y \in {0, 1}

\* what holds of the letterbox as coded: it fits the canvas, is centred within
\* one pixel, and its longer side is S or S - 1
C17_FitsAndCentred ==
    (ret.op = "detect_faces" /\ args.orig_width > 0 /\ args.orig_height > 0) =>
        LET l == ret.val.letterbox
            S == TARGET_SIZE
        IN /\ l.new_width <= S /\ l.new_height <= S
           /\ (S - l.new_width - l.offset_x) - l.offset_x \in {0, 1}
           /\ (S - l.new_height - l.offset_y) - l.offset_y \in {0, 1}
           /\ (IF args.orig_width >= args.orig_height THEN l.new_width ELSE l.new_height)
                \in {S - 1, S}

\* the longer side of a 133 x 100 image becomes 639: 133 * (640 / 133) is
\* 639.99994 in f32
C17_LongerSideShort ==
    /\ ret.op = "detect_faces"
    /\ args.orig_width = 133 /\ args.orig_height = 100
    /\ ret.val.letterbox.new_width = 639

\* the shorter side of a 1 x 6 image becomes 106, where rounding gives 107
C17_Truncated ==
    /\ ret.op = "detect_faces"
    /\ args.orig_width = 1 /\ args.orig_height = 6
    /\ ret.val.letterbox.new_width = 106
    /\ ret.val.letterbox.new_height = 640

----------------------------------------------------------------------------
(* howrs-vision/src/face.rs: encode_face after the session has run          *)
(* The recognizer output has integer components; norm is the square root    *)
(* rounded down to 1/1000, and the embedding is kept as exact fractions     *)
(* over the norm.                                                           *)

\* the square root in units of 1/1000
NORM_UNIT == 1000

L2NormalizeBySquare(embedding_vec) ==
    LET norm2 == Dot(embedding_vec, embedding_vec)
    IN IF norm2 > 0
       THEN [n \in 1..Len(embedding_vec) |-> Frac(embedding_vec[n], norm2)]
       ELSE [n \in 1..Len(embedding_vec) |-> Frac(embedding_vec[n], 1)]
\* norm = sqrt(sum of squares); x / norm when norm > 0, else the vector itself
L2Normalize(embedding_vec) ==
    LET norm == Frac(ISqrt(Dot(embedding_vec, embedding_vec) * NORM_UNIT * NORM_UNIT),
                     NORM_UNIT)
    IN IF FracGt(norm, Frac(0, 1))
       THEN [n \in 1..Len(embedding_vec) |->
               Frac(embedding_vec[n] * norm.den, norm.num)]
       ELSE [n \in 1..Len(embedding_vec) |-> Frac(embedding_vec[n], 1)]

\* encode_face from the output tensor (shape, data) on
EncodeOutput(shape, data) ==
    LET embedding_size == IF Len(shape) = 2 THEN shape[2] ELSE Len(data)
        embedding_vec == SubSeq(data, 1, embedding_size)
    IN [ok |-> TRUE, vector |-> L2Normalize(embedding_vec)]

(* Bounds *)

\* length of a recognizer output
MaxEmbedding == 3

RawComp == {-2, -1, 0, 1, 2}

RECURSIVE RawVecs(_)
RawVecs(n) == IF n = 0 THEN {<<>>} ELSE {Append(v, x) : v \in RawVecs(n - 1), x \in RawComp}

CallEncodeOutput ==
    /\ ret.op = "none"
    /\ \E n \in 1..MaxEmbedding :
       \E data \in RawVecs(n), shape \in {<<1, n>>, <<n>>} :
         /\ args' = [shape |-> shape, data |-> data]
         /\ ret' = [op |-> "encode_output", val |-> EncodeOutput(shape, data)]
    /\ UNCHANGED scanVars

NextEncode == CallEncodeOutput \/ Return

SpecEncode == Init /\ [][NextEncode]_vars

RECURSIVE SumNumSquares(_)
SumNumSquares(q) ==
    IF q = <<>> THEN 0 ELSE Head(q).num * Head(q).num + SumNumSquares(Tail(q))

\* C18: the embedding of encode_face is the recognizer output v divided
\* element-wise by norm = sqrt(sum v_i^2) when norm > 0, and then has L2 norm
\* 1 within 1e-2 (its square within [0.99, 1.02]); an all-zero v is returned
\* unchanged, without error.
C18_UnitNormOrZero ==
    ret.op = "encode_output" =>
        LET v == args.data
            out == ret.val.vector
            sum == SumSquares(v)
        IN /\ ret.val.ok
           /\ Len(out) = Len(v)
           /\ IF sum > 0
              THEN LET norm == Frac(ISqrt(sum * 1000000), 1000)
                       den == out[1].den
                   IN /\ \A n \in 1..Len(v) :
                           /\ out[n].den = den
                           /\ FracEq(FracMul(FracNorm(out[n].num, out[n].den), norm),
                                     FracInt(v[n]))
                      /\ 100 * (den * den - SumNumSquares(out)) <= den * den
                      /\ 100 * (SumNumSquares(out) - den * den) <= 2 * den * den
              ELSE \A n \in 1..Len(v) : FracEq(out[n], FracInt(0))

C18_Witness ==
    /\ ret.op = "encode_output"
    /\ args.data = <<1, -2, 2>>
    /\ ret.val.ok
    /\ FracEq(ret.val.vector[1], Frac(1, 3))
    /\ FracEq(ret.val.vector[2], Frac(-2, 3))

----------------------------------------------------------------------------
(* Ranges of the decoder's output                                           *)

\* 0 <= p <= 1, for a fraction with a positive denominator
InUnit(p) == p.num >= 0 /\ p.num <= p.den

\* C22: every RawDetection of decode_detections has bbox x, y, w, h and its
\* five landmark points within [0, 1] on the canvas and its score within
\* [0, 1], whatever the grid location and the network deltas.
C22_RawDetectionInUnitRange ==
    (ret.op = "decode_detections" /\ ret.val.ok) =>
        \A k \in 1..Len(ret.val.dets) :
            /\ \A c \in 1..4 : InUnit(ret.val.dets[k].bbox[c])
            /\ \A c \in 1..10 : InUnit(ret.val.dets[k].landmarks[c])
            /\ ret.val.dets[k].score \in 0..100

\* scores are what the caller passes in, so they stay within [0, 1]
C22_ScoreInUnitRange ==
    (ret.op = "decode_detections" /\ ret.val.ok) =>
        \A k \in 1..Len(ret.val.dets) : ret.val.dets[k].score \in 0..100

----------------------------------------------------------------------------
(* howrs-vision/src/face.rs: detect_faces from the detector's outputs on    *)
(* Raw network values are whole numbers; sigmoid is tabulated in units of   *)
(* 1/100 on the products that occur.  Unmapped coordinates are exact        *)
(* fractions of a pixel.                                                    *)

\* 1.0 / (1.0 + (-x).exp()), in 1/100
Sigmoid(x) ==
    IF x <= -5 THEN 0
    ELSE IF x >= 5 THEN 100
    ELSE <<2, 5, 12, 27, 50, 73, 88, 95, 98>>[x + 5]

CombineAtClsOnly(c, o) == c
\* one element of `cls_raw * obj`
CombineAt(c, o) == c * o

\* let combined = cls_raw * obj, for the tensors of one stride
CombineScores(cls_raw, obj) ==
    Array2(cls_raw.rows, CombineAt(cls_raw.default, obj.default),
           [idx \in (DOMAIN cls_raw.hot) \cup (DOMAIN obj.hot) |->
               CombineAt(At(cls_raw, idx), At(obj, idx))])

\* pub fn apply_sigmoid_to_scores(scores: &mut [Array2<f32>])
ApplySigmoidToScores(scores) ==
    [s \in 1..Len(scores) |->
        Array2(scores[s].rows, Sigmoid(scores[s].default),
               [idx \in DOMAIN scores[s].hot |-> Sigmoid(scores[s].hot[idx])])]

\* an f32 as an exact fraction
F32ToFrac(x) == FracNorm(x.m, Pow2(x.k))

UnmapPointNoOffset(norm, offset, scale, target_size) ==
    FracDiv(FracMul(FracNorm(norm.num, norm.den), FracInt(target_size)), scale)
\* (normalized * target_size - offset) / scale
UnmapPoint(norm, offset, scale, target_size) ==
    FracDiv(FracSub(FracMul(FracNorm(norm.num, norm.den), FracInt(target_size)),
                    FracInt(offset)),
            scale)

UnmapLengthUnscaled(norm, scale, target_size) ==
    FracMul(FracNorm(norm.num, norm.den), FracInt(target_size))
\* normalized * target_size / scale
UnmapLength(norm, scale, target_size) ==
    FracDiv(FracMul(FracNorm(norm.num, norm.den), FracInt(target_size)), scale)

\* the closure of the map over raw_detections
Unmap(d, scale, offset_x, offset_y, target_size) ==
    Detection(<<UnmapPoint(d.bbox[1], offset_x, scale, target_size),
                UnmapPoint(d.bbox[2], offset_y, scale, target_size),
                UnmapLength(d.bbox[3], scale, target_size),
                UnmapLength(d.bbox[4], scale, target_size)>>,
              d.score,
              [k \in 1..10 |->
                  IF k % 2 = 1 THEN UnmapPoint(d.landmarks[k], offset_x, scale, target_size)
                  ELSE UnmapPoint(d.landmarks[k], offset_y, scale, target_size)])

LCM(m, n) == (m \div GCD(m, n)) * n

RECURSIVE CommonDen(_)
CommonDen(dets) ==
    IF dets = <<>> THEN 1
    ELSE LET b == Head(dets).bbox
         IN LCM(LCM(LCM(b[1].den, b[2].den), LCM(b[3].den, b[4].den)), CommonDen(Tail(dets)))

\* nms on detections with fractional coordinates: compute_iou does not change
\* when all boxes are scaled alike, so the boxes are put on the grid of their
\* common denominator L and taken off it again
NmsFrac(dets, iou_threshold) ==
    LET L == CommonDen(dets)
        on == [k \in 1..Len(dets) |->
                 [dets[k] EXCEPT !.bbox = [c \in 1..4 |-> @[c].num * (L \div @[c].den)]]]
        kept == Nms(on, iou_threshold)
    IN [k \in 1..Len(kept) |->
          [kept[k] EXCEPT !.bbox = [c \in 1..4 |-> FracNorm(@[c], L)]]]

\* detect_faces after session.run: parse (shapes valid), sigmoid, decode,
\* unmap, nms.  raw, unmapped and nms_input record the values the stages hand on.
DetectFaces(cls_raw, obj, bbox_preds, landmark_preds, orig_width, orig_height, score_threshold, nms_threshold) ==
    LET l == Letterbox(orig_width, orig_height)
        scale == F32ToFrac(l.scale)
        cls_scores == ApplySigmoidToScores(
                          [s \in 1..3 |-> CombineScores(cls_raw[s], obj[s])])
        decoded == DecodeDetections(cls_scores, bbox_preds, landmark_preds,
                                    score_threshold, TARGET_SIZE)
        raw_detections == decoded.dets
        detections == [k \in 1..Len(raw_detections) |->
                          Unmap(raw_detections[k], scale, l.offset_x, l.offset_y, TARGET_SIZE)]
    IN IF ~decoded.ok THEN [ok |-> FALSE, detections |-> <<>>, raw |-> <<>>,
                            unmapped |-> <<>>, nms_input |-> <<>>]
       ELSE [ok |-> TRUE,
             detections |-> IF FracLt(nms_threshold, Frac(1, 1))
                            THEN NmsFrac(detections, nms_threshold)
                            ELSE detections,
             raw |-> raw_detections,
             unmapped |-> detections,
             nms_input |-> IF FracLt(nms_threshold, Frac(1, 1)) THEN detections ELSE <<>>]

(* Inputs *)

DetLocs == {<<3, 10, 10>>, <<3, 10, 11>>, <<1, 40, 40>>}

\* raw classification and objectness, bbox deltas and landmark deltas (1/10)
DetCells ==
    {[cls |-> 2, obj |-> 2, bbox |-> <<0, 0, 40, 40>>,
      kps |-> <<-10, -10, 10, -10, 0, 0, -10, 10, 10, 10>>],
     [cls |-> 1, obj |-> 2, bbox |-> <<0, 0, 40, 20>>,
      kps |-> <<0, 0, 0, 0, 0, 0, 0, 0, 0, 0>>],
     [cls |-> 1, obj |-> 1, bbox |-> <<10, 0, 0, -20>>,
      kps |-> <<0, 0, 10, 0, 0, 10, 0, 0, 0, 0>>]}

DetectDims == {<<640, 480>>, <<1280, 720>>, <<240, 320>>}
DetectScoreThresholds == {60, 80}
DetectTaus == {Frac(3, 10), Frac(1, 2), Frac(1, 1)}

CallDetectFaces ==
    /\ ret.op = "none"
    /\ \E hs \in {h \in SUBSET DetLocs : Cardinality(h) <= MaxHot} :
       \E cells \in [hs -> DetCells], dims \in DetectDims,
          thr \in DetectScoreThresholds, tau \in DetectTaus :
         /\ args' = [cls_raw |-> Tensors(cells, "cls", -2, 0, TARGET_SIZE),
                     obj |-> Tensors(cells, "obj", 2, 0, TARGET_SIZE),
                     bbox_preds |-> Tensors(cells, "bbox", Zeros(4), 0, TARGET_SIZE),
                     landmark_preds |-> Tensors(cells, "kps", Zeros(10), 0, TARGET_SIZE),
                     orig_width |-> dims[1], orig_height |-> dims[2],
                     score_threshold |-> thr, nms_threshold |-> tau]
         /\ ret' = [op |-> "detect_faces_outputs",
                    val |-> DetectFaces(args'.cls_raw, args'.obj, args'.bbox_preds,
                                        args'.landmark_preds, args'.orig_width,
                                        args'.orig_height, args'.score_threshold,
                                        args'.nms_threshold)]
    /\ UNCHANGED scanVars

NextDetect == CallDetectFaces \/ Return

SpecDetect == Init /\ [][NextDetect]_vars

DetectReturned == ret.op = "detect_faces_outputs" /\ ret.val.ok

\* C21: every Detection returned by detect_faces has bbox width > 0 and
\* height > 0, also when the dw or dh deltas are zero or negative.
C21_PositiveSize ==
    DetectReturned =>
        \A k \in 1..Len(ret.val.detections) :
            /\ ret.val.detections[k].bbox[3].num > 0
            /\ ret.val.detections[k].bbox[4].num > 0

Descending(dets) == \A k \in 1..(Len(dets) - 1) : dets[k].score >= dets[k + 1].score

\* C25: for every IoU threshold the list returned by detect_faces is in
\* descending score order; with a threshold >= 1.0 it holds every decoded
\* detection, still in descending score order.
C25_DescendingOutput ==
    DetectReturned =>
        /\ Descending(ret.val.detections)
        /\ (~FracLt(args.nms_threshold, Frac(1, 1))
              => Len(ret.val.detections) = Len(ret.val.raw))

\* below 1.0 the output is sorted; at 1.0 it is the decoder's list, in grid order
C25_SortedOnlyWhenSuppressing ==
    DetectReturned =>
        IF FracLt(args.nms_threshold, Frac(1, 1))
        THEN Descending(ret.val.detections)
        ELSE ret.val.detections = ret.val.unmapped

\* the scores the fusion rule gives: sigmoid of classification times objectness
FusedScores(a) ==
    [s \in 1..3 |->
        Array2(a.cls_raw[s].rows,
               Sigmoid(a.cls_raw[s].default * a.obj[s].default),
               [idx \in (DOMAIN a.cls_raw[s].hot) \cup (DOMAIN a.obj[s].hot) |->
                   Sigmoid(At(a.cls_raw[s], idx) * At(a.obj[s], idx))])]

\* C26: the score of a grid location is sigmoid(classification * objectness)
\* of the tensors of its stride; that score is compared with the threshold
\* and stored in the detection.
C26_FusedScore ==
    DetectReturned =>
        LET a == [cls_scores |-> FusedScores(args),
                  bbox_preds |-> args.bbox_preds,
                  landmark_preds |-> args.landmark_preds,
                  score_threshold |-> args.score_threshold,
                  input_size |-> TARGET_SIZE]
            passing == Passing(a)
            raw == ret.val.raw
        IN /\ Len(raw) = Cardinality(passing)
           /\ \A loc \in passing :
                Cardinality({k \in 1..Len(raw) : IsDecodedFrom(raw[k], loc, a)}) = 1

C26_Witness ==
    /\ DetectReturned
    /\ args.score_threshold = 80
    /\ At(args.cls_raw[3], 210) = 1 /\ At(args.obj[3], 210) = 2
    /\ At(args.cls_raw[1], 3240) = 1 /\ At(args.obj[1], 3240) = 1
    /\ Len(ret.val.raw) = 1
    /\ ret.val.raw[1].score = 88

\* the scale and offsets detect_faces uses for the image in args
ArgsLetterbox == Letterbox(args.orig_width, args.orig_height)

\* C27: unmapping computes (normalized * S - offset) / scale for the bbox
\* corner and the five landmark points (x with ox, y with oy) and
\* normalized * S / scale for the bbox width and height; a point p of the
\* original image mapped to the canvas as (p * scale + offset) / S and then
\* unmapped is p again.
C27_UnmapInvertsLetterbox ==
    DetectReturned =>
        LET l == ArgsLetterbox
            scale == F32ToFrac(l.scale)
            S == FracInt(TARGET_SIZE)
            OnCanvas(u, offset) == FracAdd(FracMul(u, scale), FracInt(offset))
            Same(u, offset, norm) ==
                FracEq(OnCanvas(u, offset), FracMul(FracNorm(norm.num, norm.den), S))
        IN /\ Len(ret.val.unmapped) = Len(ret.val.raw)
           /\ \A k \in 1..Len(ret.val.raw) :
                LET d == ret.val.unmapped[k]
                    r == ret.val.raw[k]
                IN /\ Same(d.bbox[1], l.offset_x, r.bbox[1])
                   /\ Same(d.bbox[2], l.offset_y, r.bbox[2])
                   /\ Same(d.bbox[3], 0, r.bbox[3])
                   /\ Same(d.bbox[4], 0, r.bbox[4])
                   /\ \A n \in 1..5 :
                        /\ Same(d.landmarks[2 * n - 1], l.offset_x, r.landmarks[2 * n - 1])
                        /\ Same(d.landmarks[2 * n], l.offset_y, r.landmarks[2 * n])
                   /\ d.score = r.score
           /\ \A p \in {0, 1, 37, args.orig_width} :
                /\ UnmapPoint(FracDiv(OnCanvas(FracInt(p), l.offset_x), S),
                              l.offset_x, scale, TARGET_SIZE) = FracInt(p)
                /\ UnmapPoint(FracDiv(OnCanvas(FracInt(p), l.offset_y), S),
                              l.offset_y, scale, TARGET_SIZE) = FracInt(p)

C27_Witness ==
    /\ DetectReturned
    /\ args.orig_width = 1280 /\ args.orig_height = 720
    /\ ArgsLetterbox.offset_y = 140
    /\ Len(ret.val.unmapped) = 2
    /\ ret.val.unmapped[1].bbox[3].num > 0

\* raw detections suppressed on the canvas and then unmapped
SuppressedThenUnmapped ==
    LET l == ArgsLetterbox
        kept == NmsFrac(ret.val.raw, args.nms_threshold)
    IN [k \in 1..Len(kept) |->
          Unmap(kept[k], F32ToFrac(l.scale), l.offset_x, l.offset_y, TARGET_SIZE)]

----------------------------------------------------------------------------
(* howrs-vision/src/pipeline.rs: Pipeline::process_image, extract_embedding *)
(* An image stands for what the two sessions make of it: the candidate      *)
(* detections with their scores, and whether each session fails.            *)
(* A candidate's landmarks field is its index in the image.                 *)

StageErr(msg, stages) ==
    [ok |-> FALSE, err |-> msg, detection |-> None, embedding |-> None, stages |-> stages]

\* face::detect_faces on the image: the candidates at or above the score
\* threshold, suppressed when nms_threshold < 1.0
DetectOn(img, score_threshold, nms_threshold) ==
    IF img.detect_err THEN [ok |-> FALSE, dets |-> <<>>]
    ELSE LET passing == SelectSeq(img.cands, LAMBDA d : ~(d.score < score_threshold))
         IN [ok |-> TRUE,
             dets |-> IF FracLt(nms_threshold, Frac(1, 1))
                      THEN Nms(passing, nms_threshold) ELSE passing]

RECURSIVE MinByScoreUpTo(_, _)
MinByScoreUpTo(dets, n) ==
    IF n = 1 THEN dets[1]
    ELSE LET m == MinByScoreUpTo(dets, n - 1)
         IN IF dets[n].score < m.score THEN dets[n] ELSE m
SelectWorst(dets) == MinByScoreUpTo(dets, Len(dets))
\* iter().max_by(score): the last of the elements with the greatest score
RECURSIVE MaxByScoreUpTo(_, _)
MaxByScoreUpTo(dets, n) ==
    IF n = 1 THEN dets[1]
    ELSE LET m == MaxByScoreUpTo(dets, n - 1)
         IN IF dets[n].score >= m.score THEN dets[n] ELSE m
SelectBest(dets) == MaxByScoreUpTo(dets, Len(dets))

\* face::align_face(img, best, 112): the crop around one detection; always Ok
AlignOn(img, best) == [of |-> best.landmarks, size |-> ENCODE_SIZE]

\* face::encode_face on the crop: a vector that differs from crop to crop
EncodeOn(img, face_img) ==
    IF img.encode_err THEN [ok |-> FALSE, embedding |-> None]
    ELSE [ok |-> TRUE, embedding |-> Some([vector |-> <<face_img.of, face_img.size>>])]

\* pub fn process_image(&mut self, img, score_threshold, nms_threshold)
ProcessImage(img, score_threshold, nms_threshold) ==
    LET detected == DetectOn(img, score_threshold, nms_threshold)
    IN IF ~detected.ok THEN StageErr("detecting faces", <<"detect">>)
       ELSE IF detected.dets = <<>>
       THEN StageErr("No face detected in image", <<"detect">>)
       ELSE LET best == SelectBest(detected.dets)
                face_img == AlignOn(img, best)
                encoded == EncodeOn(img, face_img)
            IN IF ~encoded.ok
               THEN StageErr("encoding face", <<"detect", "select", "align", "encode">>)
               ELSE [ok |-> TRUE, err |-> "", detection |-> Some(best),
                     embedding |-> encoded.embedding,
                     stages |-> <<"detect", "select", "align", "encode">>]

ExtractEmbeddingUsingArgument(img, score_threshold, nms_threshold) ==
    LET r == ProcessImage(img, score_threshold, nms_threshold)
    IN [ok |-> r.ok, err |-> r.err, embedding |-> r.embedding]
\* pub fn extract_embedding(&mut self, img, _score_threshold, nms_threshold)
ExtractEmbedding(img, score_threshold, nms_threshold) ==
    LET r == ProcessImage(img, 60, nms_threshold)
    IN [ok |-> r.ok, err |-> r.err, embedding |-> r.embedding]

(* Bounds *)

\* candidate detections of one image
MaxCands == 2

PipeBoxes == {<<0, 0, 2, 2>>, <<1, 0, 2, 2>>}
PipeScores == {55, 70, 90}
\* 0.5 from the PAM module, 0.6 from enroll and the default configuration, 0.8
PipeThresholds == {50, 60, 80}
PipeTaus == {Frac(3, 10), Frac(1, 1)}

PipeImages ==
    {[cands |-> [k \in 1..Len(bs) |-> Detection(bs[k][1], bs[k][2], k)],
      detect_err |-> de, encode_err |-> ee] :
        bs \in SeqsUpTo(PipeBoxes \X PipeScores, MaxCands), de \in BOOLEAN, ee \in BOOLEAN}

CallProcessImage ==
    /\ ret.op = "none"
    /\ \E img \in PipeImages, thr \in PipeThresholds, tau \in PipeTaus :
         /\ args' = [img |-> img, score_threshold |-> thr, nms_threshold |-> tau]
         /\ ret' = [op |-> "process_image", val |-> ProcessImage(img, thr, tau)]
    /\ UNCHANGED scanVars

CallExtractEmbedding ==
    /\ ret.op = "none"
    /\ \E img \in PipeImages, thr \in PipeThresholds, tau \in PipeTaus :
         /\ args' = [img |-> img, score_threshold |-> thr, nms_threshold |-> tau]
         /\ ret' = [op |-> "extract_embedding", val |-> ExtractEmbedding(img, thr, tau)]
    /\ UNCHANGED scanVars

NextPipeline == CallProcessImage \/ CallExtractEmbedding \/ Return

SpecPipeline == Init /\ [][NextPipeline]_vars

\* the detections of the frame: what detect_faces returns for the call in args
FrameDetections == DetectOn(args.img, args.score_threshold, args.nms_threshold).dets

\* C23: process_image surfaces the first stage error at once and runs no
\* later stage; an empty detection list is a no-face error, never Ok; on
\* success the returned Detection scores at least as high as every detection
\* of the frame and the Embedding is computed from that detection.
C23_FirstErrorAndBestFace ==
    ret.op = "process_image" =>
        LET r == ret.val
        IN /\ args.img.detect_err =>
                (~r.ok /\ r.err = "detecting faces" /\ r.stages = <<"detect">>)
           /\ (~args.img.detect_err /\ FrameDetections = <<>>) =>
                (~r.ok /\ r.err = "No face detected in image" /\ r.stages = <<"detect">>)
           /\ (~args.img.detect_err /\ FrameDetections # <<>> /\ args.img.encode_err) =>
                (~r.ok /\ r.err = "encoding face" /\ ~r.embedding.some)
           /\ r.ok =>
                /\ ~args.img.detect_err /\ ~args.img.encode_err
                /\ r.detection.some /\ r.embedding.some
                /\ \E k \in 1..Len(FrameDetections) : FrameDetections[k] = r.detection.val
                /\ \A k \in 1..Len(FrameDetections) :
                     r.detection.val.score >= FrameDetections[k].score
                /\ r.embedding.val.vector[1] = r.detection.val.landmarks

C23_Witness ==
    /\ ret.op = "process_image"
    /\ ret.val.ok
    /\ args.nms_threshold = Frac(1, 1)
    /\ Len(FrameDetections) = 2
    /\ FrameDetections[1].score < FrameDetections[2].score
    /\ ret.val.detection.val = FrameDetections[2]
    /\ ret.val.embedding.val.vector[1] = 2

----------------------------------------------------------------------------
(* src/src/main.rs: enroll, the high-quality break *)

\* the enroll loop is over: at the match after the loop, or returned
EnrollLoopOver == wf = "enroll" /\ pc \in {"finish", "done"} /\ result # "Err:open"

HighQualitySeen == \E k \in 1..Len(hist) : HighQualityFrame(hist[k].score)

\* a high-quality frame is the last frame acquired and the one kept, and
\* the record saved holds its embedding
HighQualityFrameEnrolled ==
    /\ last = "ok"
    /\ \A k \in 1..Len(hist) : HighQualityFrame(hist[k].score) => k = Len(hist)
    /\ best_detection = Some([frame |-> Len(hist), score |-> hist[Len(hist)].score])
    /\ best_embedding = Some([frame |-> Len(hist), vector |-> hist[Len(hist)].vector])
    /\ pc = "done" =>
         /\ result = "Ok"
         /\ store[user] = Append(storeBefore[user], FaceRecord(hist[Len(hist)].vector))

\* C24: enrollment ends early exactly when a successful frame scores above
\* 0.8: no frame is acquired after it and it is the frame enrolled; a run
\* whose successful frames all score at most 0.8 performs all 30 attempts.
C24_EarlyExitOnlyOnHighQuality ==
    /\ (wf = "enroll" /\ HighQualitySeen) => (pc \in {"finish", "done"} /\ HighQualityFrameEnrolled)
    /\ (EnrollLoopOver /\ ~HighQualitySeen) => acquired = MAX_ATTEMPTS

\* the same, for the runs in which camera.frame() does not fail after the
\* loop has started
C24_EarlyExitBarringCaptureError ==
    /\ (wf = "enroll" /\ HighQualitySeen) => (pc \in {"finish", "done"} /\ HighQualityFrameEnrolled)
    /\ (EnrollLoopOver /\ ~HighQualitySeen /\ result # "Err:capture") => acquired = MAX_ATTEMPTS

----------------------------------------------------------------------------
(* src/src/storage.rs: load_records, save_record, purge on the file system  *)
(* Here store is the directory tree under FACE_STORE_PREFIX: for each user  *)
(* whether the user's directory exists and the bytes of its faces.bin, and  *)
(* hist is, for each user, the records saved since the user's last purge.   *)

\* pub struct FaceRecord { id: String, embedding: Vec<f32> }
StoredRecord(id, embedding) == [id |-> id, embedding |-> embedding]

(* postcard wire format *)

RECURSIVE Varint(_)
Varint(n) == IF n < 128 THEN <<n>> ELSE <<128 + (n % 128)>> \o Varint(n \div 128)

\* f32::to_le_bytes of the value with bit pattern n
LeBytes(n) ==
    <<n % 256, (n \div 256) % 256, (n \div 65536) % 256, (n \div 16777216) % 256>>

RECURSIVE Concat(_)
Concat(ss) == IF ss = <<>> THEN <<>> ELSE Head(ss) \o Concat(Tail(ss))

EncodeRecord(r) ==
    Varint(Len(r.id)) \o r.id
    \o Varint(Len(r.embedding))
    \o Concat([k \in 1..Len(r.embedding) |-> LeBytes(r.embedding[k])])

\* postcard::to_allocvec(&records)
ToAllocvec(recs) ==
    Varint(Len(recs)) \o Concat([k \in 1..Len(recs) |-> EncodeRecord(recs[k])])

\* a parse step: the value read and the position after it; pos 0 is failure
RECURSIVE TakeVarint(_, _, _, _)
TakeVarint(bytes, pos, acc, mul) ==
    IF pos = 0 \/ pos > Len(bytes) THEN [val |-> 0, pos |-> 0]
    ELSE IF bytes[pos] < 128
    THEN [val |-> acc + bytes[pos] * mul, pos |-> pos + 1]
    ELSE TakeVarint(bytes, pos + 1, acc + (bytes[pos] - 128) * mul, mul * 128)

TakeBytes(bytes, pos, n) ==
    IF pos = 0 \/ pos + n - 1 > Len(bytes) THEN [val |-> <<>>, pos |-> 0]
    ELSE [val |-> SubSeq(bytes, pos, pos + n - 1), pos |-> pos + n]

FromLeBytes(b) == b[1] + 256 * b[2] + 65536 * b[3] + 16777216 * b[4]

RECURSIVE TakeF32s(_, _, _, _)
TakeF32s(bytes, pos, n, acc) ==
    IF n = 0 THEN [val |-> acc, pos |-> pos]
    ELSE LET b == TakeBytes(bytes, pos, 4)
         IN IF b.pos = 0 THEN [val |-> <<>>, pos |-> 0]
            ELSE TakeF32s(bytes, b.pos, n - 1, Append(acc, FromLeBytes(b.val)))

TakeRecord(bytes, pos) ==
    LET idlen == TakeVarint(bytes, pos, 0, 1)
        id == TakeBytes(bytes, idlen.pos, idlen.val)
        elen == TakeVarint(bytes, id.pos, 0, 1)
        emb == TakeF32s(bytes, elen.pos, elen.val, <<>>)
    IN [val |-> StoredRecord(id.val, emb.val), pos |-> emb.pos]

RECURSIVE TakeRecords(_, _, _, _)
TakeRecords(bytes, pos, n, acc) ==
    IF n = 0 THEN [val |-> acc, pos |-> pos]
    ELSE LET r == TakeRecord(bytes, pos)
         IN IF r.pos = 0 THEN [val |-> <<>>, pos |-> 0]
            ELSE TakeRecords(bytes, r.pos, n - 1, Append(acc, r.val))

\* postcard::from_bytes::<Vec<FaceRecord>>(&data)
FromBytes(bytes) ==
    LET n == TakeVarint(bytes, 1, 0, 1)
        recs == TakeRecords(bytes, n.pos, n.val, <<>>)
    IN IF recs.pos = 0 THEN [ok |-> FALSE, records |-> <<>>]
       ELSE [ok |-> TRUE, records |-> recs.val]

(* the three operations *)

NoDir == [dir |-> FALSE, file |-> None]

\* pub fn load_records(user_id)
DiskLoadRecords(fs, u) ==
    IF ~fs[u].file.some THEN [ok |-> TRUE, records |-> <<>>]
    ELSE FromBytes(fs[u].file.val)

DiskSaveRecordOverwriting(fs, u, record) ==
    [fs EXCEPT ![u] = [dir |-> TRUE, file |-> Some(ToAllocvec(<<record>>))]]
\* pub fn save_record(user_id, record), every step succeeding
DiskSaveRecord(fs, u, record) ==
    LET made == [fs EXCEPT ![u].dir = TRUE]
        loaded == DiskLoadRecords(made, u)
    IN IF ~loaded.ok THEN made
       ELSE [made EXCEPT ![u].file = Some(ToAllocvec(Append(loaded.records, record)))]

\* pub fn purge(user_id)
DiskPurge(fs, u) == IF fs[u].dir THEN [fs EXCEPT ![u] = NoDir] ELSE fs

(* Bounds *)

\* records saved for one user between purges
MaxSaved == 2

\* uuid strings, as bytes
RecordIds == {<<97>>, <<98, 99>>}
\* vectors of f32 bit patterns: (0.0, 1.0) and (0.5)
RecordEmbeddings == {<<0, 1065353216>>, <<1056964608>>}
StoredRecords == {StoredRecord(id, e) : id \in RecordIds, e \in RecordEmbeddings}

InitStorage ==
    /\ store = [u \in Users |-> NoDir]
    /\ hist = [u \in Users |-> <<>>]
    /\ wf = "idle"
    /\ user = "alice"
    /\ pc = "idle"
    /\ i = 0
    /\ best_detection = None
    /\ best_embedding = None
    /\ records = <<>>
    /\ threshold = 15
    /\ result = "none"
    /\ storeBefore = [u \in Users |-> <<>>]
    /\ acquired = 0
    /\ last = "none"
    /\ matchedAny = FALSE
    /\ belowSeen = FALSE
    /\ args = NoArgs
    /\ ret = NoRet

storageUnchanged ==
    <<wf, user, pc, i, best_detection, best_embedding, records, threshold,
      result, storeBefore, acquired, last, matchedAny, belowSeen, args>>

CallSaveRecord(u) ==
    /\ Len(hist[u]) < MaxSaved
    /\ \E record \in StoredRecords, created \in BOOLEAN :
         IF created
         THEN /\ store' = DiskSaveRecord(store, u, record)
              /\ hist' = [hist EXCEPT ![u] = Append(hist[u], record)]
              /\ ret' = [op |-> "save_record", user |-> u, ok |-> TRUE]
         ELSE \* create_dir_all fails
              /\ ret' = [op |-> "save_record", user |-> u, ok |-> FALSE]
              /\ UNCHANGED <<store, hist>>
    /\ UNCHANGED storageUnchanged

CallPurge(u) ==
    /\ store' = DiskPurge(store, u)
    /\ hist' = [hist EXCEPT ![u] = <<>>]
    /\ ret' = [op |-> "purge", user |-> u, ok |-> TRUE]
    /\ UNCHANGED storageUnchanged

CallLoadRecords(u) ==
    /\ ret' = [op |-> "load_records", user |-> u, val |-> DiskLoadRecords(store, u)]
    /\ UNCHANGED <<store, hist>>
    /\ UNCHANGED storageUnchanged

NextStorage ==
    \/ \E u \in Users : CallSaveRecord(u)
    \/ \E u \in Users : CallPurge(u)
    \/ \E u \in Users : CallLoadRecords(u)

SpecStorage == InitStorage /\ [][NextStorage]_vars

\* C30: after any sequence of save_record and purge calls, load_records(user)
\* returns exactly the records saved for that user since that user's last
\* purge, in the order saved; a never-enrolled or purged user loads as the
\* empty list; operations on one user leave the other users' records alone.
C30_LoadReturnsSavedSincePurge ==
    /\ \A u \in Users : DiskLoadRecords(store, u) = [ok |-> TRUE, records |-> hist[u]]
    /\ ret.op = "load_records" => ret.val = [ok |-> TRUE, records |-> hist[ret.user]]
    /\ \A u \in Users : ~store[u].dir => DiskLoadRecords(store, u).records = <<>>

C30_Witness ==
    /\ ret.op = "load_records" /\ ret.user = "alice"
    /\ Len(ret.val.records) = 2
    /\ ret.val.records[1].id # ret.val.records[2].id
    /\ Len(ret.val.records[1].embedding) # Len(ret.val.records[2].embedding)
    /\ ret.val.records = hist["alice"]
    /\ \E u \in Users : u # "alice" /\ ~store[u].dir

====
